---- MODULE Spec2Model ----
(***************************************************************************)
(* Model of the smart-home event router (EventManager and its listeners)   *)
(* and of the device decorators (Timer / Logging / Notification) layered   *)
(* over the base devices.                                                  *)
(*                                                                         *)
(* Python values are modelled as follows: a dict is a function whose       *)
(* DOMAIN is its key set, a list is a sequence, a set is a set, None is    *)
(* the string "None".                                                      *)
(***************************************************************************)
EXTENDS Integers, Sequences, FiniteSets, TLC

VARIABLES
    subscribers,           \* EventManager._subscribers : dict EventType -> set of subscribers
    event_types,           \* <subscriber>._event_types : list of EventType, per listener
    event_log,             \* LoggingEventSubscriber._event_log
    max_log_size,          \* LoggingEventSubscriber._max_log_size
    notification_history,  \* NotificationService._notification_history
    iter,                  \* the set iterator of a notify in progress (re-entrant listeners)
    interest,              \* ghost: per listener, the types it declared when it was subscribed
    nnotify,               \* ghost: number of notify calls made so far
    device,                \* the base device's constructor data: kind, _id, _name, flags, range
    dev_state,             \* BaseDevice._state
    stack,                 \* the decorators around the device, innermost first
    history,               \* LoggingDecorator._history, per layer of the stack
    schedules,             \* TimerDecorator._schedules, per layer of the stack
    now,                   \* datetime.now(), as a tick count
    ncalls,                \* ghost: number of set_state calls made so far
    last                   \* ghost: the last call and what it returned

routerVars == <<subscribers, event_types, event_log, max_log_size,
                notification_history, iter, interest, nnotify>>

deviceVars == <<device, dev_state, stack, history, schedules, now, ncalls>>

(***************************************************************************)
(* Bounds of the exploration.                                              *)
(***************************************************************************)
MaxNotify == 2
MaxReact == 2
MaxCalls == 3
MaxHistory == 2
MaxTime == 3
MaxSchedules == 2
MaxLog == 2
MaxUpdates == 3

None == "None"

(***************************************************************************)
(* interfaces/event.py                                                     *)
(***************************************************************************)
EventTypeList ==
    << "DEVICE_STATE_CHANGED", "MOTION_DETECTED", "DOOR_OPENED", "DOOR_CLOSED",
       "TEMPERATURE_THRESHOLD_REACHED", "HUMIDITY_THRESHOLD_REACHED",
       "LIGHT_LEVEL_CHANGED", "SYSTEM_ALERT", "USER_PRESENCE", "USER_ABSENCE",
       "SCHEDULED_EVENT" >>

Range(s) == { s[i] : i \in DOMAIN s }

EventType == Range(EventTypeList)

\* Event(event_type, source, data=d)
Event(t, src, d) == [event_type |-> t, source |-> src, data |-> d]

\* Event(event_type, source): __post_init__ replaces the None data by {}
EventWithoutData(t, src) == Event(t, src, <<>>)

(***************************************************************************)
(* The listeners of the model: one LoggingEventSubscriber, one             *)
(* NotificationService and one further EventSubscriber implementation.     *)
(***************************************************************************)
Listener == {"logger", "notifier", "custom"}

\* s[-n:] of Python for n >= 0: the last n elements, and the whole list for n = 0.
LastN(s, n) ==
    IF n = 0 \/ n >= Len(s) THEN s ELSE SubSeq(s, Len(s) - n + 1, Len(s))

\* None where a list is expected (event_types=None)
NoneList == <<None>>

\* LoggingEventSubscriber.__init__: event_types or list(EventType)
LoggingEventTypes(arg) ==
    IF arg = NoneList \/ arg = <<>> THEN EventTypeList ELSE arg

\* Mutant: the notification service declares every type by default
NotificationEventTypesAll(arg) == IF arg = NoneList THEN EventTypeList ELSE arg

\* NotificationService.__init__: the critical events when event_types is None
NotificationEventTypes(arg) ==
    IF arg = NoneList THEN <<"MOTION_DETECTED", "DOOR_OPENED", "SYSTEM_ALERT">> ELSE arg

\* dict.get(key, default)
DictGet(d, k, default) == IF k \in DOMAIN d THEN d[k] ELSE default

\* str.upper() on the severities of the model
Upper(s) ==
    CASE s = "critical" -> "CRITICAL"
      [] s = "warning"  -> "WARNING"
      [] s = "unknown"  -> "UNKNOWN"
      [] OTHER          -> s

\* str(event.event_type): "EventType.<NAME>", as its parts
StrOfEventType(t) == <<"EventType.", t>>

\* A message builder that leaves the severity as it is given
CreateMessageForEventPlain(e) ==
    CASE e.event_type = "MOTION_DETECTED" -> <<"Motion detected by ", e.source, "!">>
      [] e.event_type = "DOOR_OPENED"     -> <<"Door opened: ", e.source>>
      [] e.event_type = "SYSTEM_ALERT"    ->
            << DictGet(e.data, "severity", "unknown"), " ALERT: ",
               DictGet(e.data, "message", "System alert") >>
      [] e.event_type = "DEVICE_STATE_CHANGED" ->
            <<"Device state changed: ", DictGet(e.data, "device_name", e.source)>>
      [] OTHER -> <<"Event occurred: ", StrOfEventType(e.event_type), " from ", e.source>>

\* NotificationService._create_message_for_event: the f-string as its parts
CreateMessageForEvent(e) ==
    CASE e.event_type = "MOTION_DETECTED" -> <<"Motion detected by ", e.source, "!">>
      [] e.event_type = "DOOR_OPENED"     -> <<"Door opened: ", e.source>>
      [] e.event_type = "SYSTEM_ALERT"    ->
            << Upper(DictGet(e.data, "severity", "unknown")), " ALERT: ",
               DictGet(e.data, "message", "System alert") >>
      [] e.event_type = "DEVICE_STATE_CHANGED" ->
            <<"Device state changed: ", DictGet(e.data, "device_name", e.source)>>
      [] OTHER -> <<"Event occurred: ", StrOfEventType(e.event_type), " from ", e.source>>

\* LoggingEventSubscriber.update
LoggingUpdate(log, maxsize, e) ==
    LET entry    == [type |-> StrOfEventType(e.event_type), source |-> e.source,
                     data |-> e.data]
        appended == Append(log, entry)
    IN  IF Len(appended) > maxsize THEN LastN(appended, maxsize) ELSE appended

\* Mutant: the record is not made during the call
NotificationUpdateDeferred(hist, e) == hist

\* A notification history that keeps its two newest records
NotificationUpdateBounded(hist, e) ==
    LastN(Append(hist, [message    |-> CreateMessageForEvent(e),
                        event_type |-> StrOfEventType(e.event_type),
                        source     |-> e.source]), 2)

\* NotificationService.update
NotificationUpdate(hist, e) ==
    Append(hist, [message    |-> CreateMessageForEvent(e),
                  event_type |-> StrOfEventType(e.event_type),
                  source     |-> e.source])

(***************************************************************************)
(* automation/event_system.py : EventManager                               *)
(***************************************************************************)
\* Mutant: the registry is filled lazily, one type has no entry yet
EventManagerInitPartial == [t \in EventType \ {"SCHEDULED_EVENT"} |-> {}]

\* EventManager.__init__: an empty set for each event type
EventManagerInit == [t \in EventType |-> {}]

\* Mutant: adding a present member removes it
SetToggle(s, x) == IF x \in s THEN s \ {x} ELSE s \cup {x}

\* set.add
SetAdd(s, x) == s \cup {x}

\* EventManager.subscribe: the registry after the loop over the declared list
RECURSIVE SubscribeLoop(_, _, _)
SubscribeLoop(reg, l, types) ==
    IF types = <<>> THEN reg
    ELSE SubscribeLoop([reg EXCEPT ![Head(types)] = SetAdd(@, l)], l, Tail(types))

\* Mutant: the whole set that holds the listener is emptied
UnsubscribeClearing(reg, l) ==
    [t \in DOMAIN reg |-> IF l \in reg[t] THEN {} ELSE reg[t]]

\* Mutant: removed only from the types the listener declares now
UnsubscribeDeclaredOnly(reg, l) ==
    [t \in DOMAIN reg |-> IF t \in Range(event_types[l]) THEN reg[t] \ {l} ELSE reg[t]]

\* EventManager.unsubscribe: removed from every set that holds it
UnsubscribeAll(reg, l) ==
    [t \in DOMAIN reg |-> IF l \in reg[t] THEN reg[t] \ {l} ELSE reg[t]]

\* Mutant: every registered listener, whatever the event's type
SubscribersOfAnyType(reg, e) == UNION { reg[t] : t \in DOMAIN reg }

\* EventManager.notify: self._subscribers.get(event.event_type, set())
SubscribersFor(reg, e) ==
    IF e.event_type \in DOMAIN reg THEN reg[e.event_type] ELSE {}

\* EventManager.get_subscriber_count
GetSubscriberCount == [t \in DOMAIN subscribers |-> Cardinality(subscribers[t])]

\* The types for which l is in the registry
RegisteredIn(reg, l) == { t \in DOMAIN reg : l \in reg[t] }

RegisteredTypes(l) == RegisteredIn(subscribers, l)

NoIter == [active |-> FALSE]

\* Events published directly on the router (main.py publishes MOTION_DETECTED
\* with the sensor's id as source)
NotifiedTypes == {"MOTION_DETECTED", "DOOR_CLOSED", "SYSTEM_ALERT", "LIGHT_LEVEL_CHANGED"}

EventChoices ==
    { EventWithoutData(t, "sensor-hall-1") : t \in NotifiedTypes }

\* The list the third listener declares: a type may be listed twice
CustomTypes == <<"MOTION_DETECTED", "DOOR_OPENED", "MOTION_DETECTED">>

InitRouter ==
    /\ subscribers = EventManagerInit
    /\ event_types = [l \in Listener |->
                           CASE l = "logger"   -> LoggingEventTypes(NoneList)
                             [] l = "notifier" -> NotificationEventTypes(NoneList)
                             [] OTHER          -> CustomTypes]
    /\ event_log = <<>>
    /\ max_log_size = 1
    /\ notification_history = <<>>
    /\ iter = NoIter
    /\ interest = [l \in Listener |-> {}]
    /\ nnotify = 0
    /\ last = [op |-> "init"]

\* event_manager.subscribe(l)
Subscribe(l) ==
    /\ ~iter.active
    /\ subscribers' = SubscribeLoop(subscribers, l, event_types[l])
    /\ interest' = [interest EXCEPT ![l] = @ \cup Range(event_types[l])]
    /\ last' = [op |-> "subscribe", l |-> l,
                again |-> Range(event_types[l]) \subseteq RegisteredTypes(l)]
    /\ UNCHANGED <<event_types, event_log, max_log_size, notification_history, iter, nnotify,
                   deviceVars>>

\* event_manager.unsubscribe(l)
Unsubscribe(l) ==
    /\ ~iter.active
    /\ subscribers' = UnsubscribeAll(subscribers, l)
    /\ interest' = [interest EXCEPT ![l] = {}]
    /\ last' = [op |-> "unsubscribe", l |-> l]
    /\ UNCHANGED <<event_types, event_log, max_log_size, notification_history, iter, nnotify,
                   deviceVars>>

\* event_manager.notify(e) with listeners whose update does not call the router:
\* every subscriber in the set for the event's type is updated once
Notify(e) ==
    LET to == SubscribersFor(subscribers, e) IN
    /\ ~iter.active
    /\ nnotify < MaxNotify
    /\ event_log' = IF "logger" \in to
                      THEN LoggingUpdate(event_log, max_log_size, e) ELSE event_log
    /\ notification_history' = IF "notifier" \in to
                      THEN NotificationUpdate(notification_history, e)
                      ELSE notification_history
    /\ nnotify' = nnotify + 1
    /\ last' = [op |-> "notify", event |-> e,
                count |-> [l \in Listener |-> IF l \in to THEN 1 ELSE 0],
                start |-> to, raised |-> FALSE]
    /\ UNCHANGED <<subscribers, event_types, max_log_size, iter, interest,
                   deviceVars>>

\* SmartHomeGUI._update_notification_preferences: the three check boxes
PreferenceList(motion, door, system) ==
    (IF motion THEN <<"MOTION_DETECTED">> ELSE <<>>)
    \o (IF door THEN <<"DOOR_OPENED", "DOOR_CLOSED">> ELSE <<>>)
    \o (IF system THEN <<"SYSTEM_ALERT">> ELSE <<>>)

\* SmartHomeGUI._find_subscribers_by_type(NotificationService)
FindNotificationServices ==
    { l \in {"notifier"} : \E t \in DOMAIN subscribers : l \in subscribers[t] }

UpdateNotificationPreferences(motion, door, system) ==
    /\ ~iter.active
    /\ event_types' = [l \in Listener |->
                         IF l \in FindNotificationServices
                         THEN PreferenceList(motion, door, system)
                         ELSE event_types[l]]
    /\ last' = [op |-> "preferences"]
    /\ UNCHANGED <<subscribers, event_log, max_log_size, notification_history,
                   iter, interest, nnotify,
                   deviceVars>>

(***************************************************************************)
(* notify with a listener whose update calls subscribe / unsubscribe on    *)
(* the same router.  notify iterates the live set object of the event's    *)
(* type (for subscriber in subscribers), so the set iterator is modelled:  *)
(* CPython's set iterator remembers the set's size at its creation and     *)
(* raises RuntimeError("Set changed size during iteration") from the next  *)
(* step that finds another size.  When the size is the same the iterator   *)
(* goes on over the hash table: members present since the start and not    *)
(* yet passed are still yielded, a member added meanwhile is yielded or    *)
(* not, depending on its slot.                                             *)
(***************************************************************************)
\* The router calls an update may make: at most MaxReact calls
RouterCalls == { [op |-> o, l |-> m] : o \in {"subscribe", "unsubscribe"}, m \in Listener }

RECURSIVE CallSeqs(_)
CallSeqs(n) ==
    IF n = 0 THEN { <<>> }
    ELSE CallSeqs(n - 1) \cup
         { Append(cs, c) : cs \in { x \in CallSeqs(n - 1) : Len(x) = n - 1 }, c \in RouterCalls }

\* Only the third listener's update calls the router; LoggingEventSubscriber.update
\* and NotificationService.update touch their own lists only
Reactions(l) == IF l = "custom" THEN CallSeqs(MaxReact) ELSE { <<>> }

RECURSIVE ApplyCalls(_, _, _)
ApplyCalls(reg, types, calls) ==
    IF calls = <<>> THEN reg
    ELSE LET c == Head(calls)
             r == IF c.op = "subscribe" THEN SubscribeLoop(reg, c.l, types[c.l])
                                        ELSE UnsubscribeAll(reg, c.l)
         IN  ApplyCalls(r, types, Tail(calls))

RECURSIVE InterestAfter(_, _, _)
InterestAfter(int, types, calls) ==
    IF calls = <<>> THEN int
    ELSE LET c == Head(calls)
             r == IF c.op = "subscribe" THEN [int EXCEPT ![c.l] = @ \cup Range(types[c.l])]
                                        ELSE [int EXCEPT ![c.l] = {}]
         IN  InterestAfter(r, types, Tail(calls))

\* iter(subscribers): the iterator over the live set
SetIter(e, live) ==
    [active |-> TRUE, event |-> e, used |-> Cardinality(live), start |-> live,
     visited |-> {}, count |-> [l \in Listener |-> 0]]

\* notify(e) is entered: the set is looked up and the for loop starts
NotifyBegin(e) ==
    /\ ~iter.active
    /\ nnotify < MaxNotify
    /\ iter' = SetIter(e, SubscribersFor(subscribers, e))
    /\ nnotify' = nnotify + 1
    /\ last' = [op |-> "notify_begin", event |-> e]
    /\ UNCHANGED <<subscribers, event_types, event_log, max_log_size,
                   notification_history, interest,
                   deviceVars>>

\* The members the iterator may yield next
IterCandidates == SubscribersFor(subscribers, iter.event) \ iter.visited

\* The members the iterator must still yield before it is exhausted
IterPending == IterCandidates \cap iter.start

IterSizeChanged == Cardinality(SubscribersFor(subscribers, iter.event)) # iter.used

\* One round of the loop: the iterator yields l, l.update(e) runs and makes calls
NotifyNext(l, calls) ==
    /\ iter.active
    /\ ~IterSizeChanged
    /\ l \in IterCandidates
    /\ event_log' = IF l = "logger"
                      THEN LoggingUpdate(event_log, max_log_size, iter.event) ELSE event_log
    /\ notification_history' = IF l = "notifier"
                      THEN NotificationUpdate(notification_history, iter.event)
                      ELSE notification_history
    /\ subscribers' = ApplyCalls(subscribers, event_types, calls)
    /\ interest' = InterestAfter(interest, event_types, calls)
    /\ iter' = [iter EXCEPT !.visited = @ \cup {l}, !.count[l] = @ + 1]
    /\ last' = [op |-> "update", l |-> l, calls |-> calls]
    /\ UNCHANGED <<event_types, max_log_size, nnotify,
                   deviceVars>>

\* The iterator finds the set's size changed: RuntimeError leaves notify
NotifyRaise ==
    /\ iter.active
    /\ IterSizeChanged
    /\ iter' = NoIter
    /\ last' = [op |-> "notify", event |-> iter.event, count |-> iter.count,
                start |-> iter.start, raised |-> TRUE]
    /\ UNCHANGED <<subscribers, event_types, event_log, max_log_size,
                   notification_history, interest, nnotify,
                   deviceVars>>

\* The iterator is exhausted: notify returns
NotifyReturn ==
    /\ iter.active
    /\ ~IterSizeChanged
    /\ IterPending = {}
    /\ iter' = NoIter
    /\ last' = [op |-> "notify", event |-> iter.event, count |-> iter.count,
                start |-> iter.start, raised |-> FALSE]
    /\ UNCHANGED <<subscribers, event_types, event_log, max_log_size,
                   notification_history, interest, nnotify,
                   deviceVars>>

\* logger.update(e), called on the logging listener as the router calls it
LoggerUpdate(e) ==
    /\ Len(last.arrived) < MaxUpdates
    /\ event_log' = LoggingUpdate(event_log, max_log_size, e)
    /\ last' = [op |-> "update", arrived |-> Append(last.arrived, e)]
    /\ UNCHANGED <<subscribers, event_types, max_log_size, notification_history, iter,
                   interest, nnotify, deviceVars>>

\* logger.clear_log()
ClearLog ==
    /\ event_log' = <<>>
    /\ last' = [op |-> "clear_log", arrived |-> <<>>]
    /\ UNCHANGED <<subscribers, event_types, max_log_size, notification_history, iter,
                   interest, nnotify, deviceVars>>

\* The events the logging listener is updated with
LoggedEvents ==
    { EventWithoutData("MOTION_DETECTED", "sensor-hall-1"),
      EventWithoutData("DOOR_CLOSED", "lock-front-1"),
      Event("SYSTEM_ALERT", "hub", [severity |-> "critical", message |-> "Smoke"]) }

\* LoggingEventSubscriber(max_log_size=n) subscribed on the router
InitLogging(n) ==
    /\ subscribers = SubscribeLoop(EventManagerInit, "logger", LoggingEventTypes(NoneList))
    /\ event_types = [l \in Listener |->
                           CASE l = "logger"   -> LoggingEventTypes(NoneList)
                             [] l = "notifier" -> NotificationEventTypes(NoneList)
                             [] OTHER          -> CustomTypes]
    /\ interest = [l \in Listener |->
                           IF l = "logger" THEN Range(LoggingEventTypes(NoneList)) ELSE {}]
    /\ event_log = <<>>
    /\ max_log_size = n
    /\ notification_history = <<>>
    /\ iter = NoIter
    /\ nnotify = 0
    /\ last = [op |-> "init", arrived |-> <<>>]

\* The listener whose update raises (a subscriber of the tests' kind with a
\* failing update)
FailingListeners == {"custom"}

\* Mutant: the router catches the failure and goes on with the next listener
UpdateFailsCaught(l) ==
    /\ iter.active
    /\ ~IterSizeChanged
    /\ l \in IterCandidates \cap FailingListeners
    /\ iter' = [iter EXCEPT !.visited = @ \cup {l}, !.count[l] = @ + 1]
    /\ last' = [op |-> "update", l |-> l, calls |-> <<>>]
    /\ UNCHANGED <<subscribers, event_types, event_log, max_log_size,
                   notification_history, interest, nnotify,
                   deviceVars>>

\* One round of the loop: the iterator yields l and l.update(e) raises; notify has
\* no try block, the exception leaves the loop and notify
UpdateFails(l) ==
    /\ iter.active
    /\ ~IterSizeChanged
    /\ l \in IterCandidates \cap FailingListeners
    /\ iter' = NoIter
    /\ last' = [op |-> "notify", event |-> iter.event,
                count |-> [iter.count EXCEPT ![l] = @ + 1],
                start |-> iter.start, raised |-> TRUE]
    /\ UNCHANGED <<subscribers, event_types, event_log, max_log_size,
                   notification_history, interest, nnotify,
                   deviceVars>>

\* The listener another thread subscribes and unsubscribes while notify runs
ThreadListeners == {"custom"}

\* event_manager.subscribe(l) in another thread, between two rounds of notify's
\* loop: the router has no lock, the call runs on the set being iterated
ThreadSubscribe(l) ==
    /\ iter.active
    /\ subscribers' = SubscribeLoop(subscribers, l, event_types[l])
    /\ interest' = [interest EXCEPT ![l] = @ \cup Range(event_types[l])]
    /\ last' = [op |-> "thread_subscribe", l |-> l]
    /\ UNCHANGED <<event_types, event_log, max_log_size, notification_history, iter, nnotify,
                   deviceVars>>

\* event_manager.unsubscribe(l) in another thread, between two rounds of the loop
ThreadUnsubscribe(l) ==
    /\ iter.active
    /\ subscribers' = UnsubscribeAll(subscribers, l)
    /\ interest' = [interest EXCEPT ![l] = {}]
    /\ last' = [op |-> "thread_unsubscribe", l |-> l]
    /\ UNCHANGED <<event_types, event_log, max_log_size, notification_history, iter, nnotify,
                   deviceVars>>

(***************************************************************************)
(* Python values.  A value is a pair <<kind, payload>>: a bool (payload 0  *)
(* or 1), a number, a str, None, or a dict.                                *)
(***************************************************************************)
B(b) == <<"bool", IF b THEN 1 ELSE 0>>
N(n) == <<"num", n>>
S(s) == <<"str", s>>
NoneV == <<"none", 0>>
D(d) == <<"dict", d>>

\* bool is a subclass of int: True == 1, and both compare with numbers
IsNumber(v) == v[1] \in {"bool", "num"}

\* a == b
PyEq(a, b) == IF IsNumber(a) /\ IsNumber(b) THEN a[2] = b[2] ELSE a = b

\* d[k] = v on a dict
DictSet(d, k, v) == [x \in DOMAIN d \cup {k} |-> IF x = k THEN v ELSE d[x]]

(***************************************************************************)
(* devices/base_devices.py and devices/device_factories.py                 *)
(***************************************************************************)
DefaultMaxLogSize == 1000
DefaultMinTemp == 10
DefaultMaxTemp == 32

\* BaseDevice.__init__
BaseState == "power" :> B(FALSE)

\* SmartLight.__init__
SmartLightState(dimmable, color_adjustable) ==
    LET withBrightness == DictSet(BaseState, "brightness",
                                  IF dimmable THEN N(100) ELSE NoneV)
    IN  IF color_adjustable
        THEN DictSet(DictSet(withBrightness, "color", S("#FFFFFF")),
                     "color_temperature", N(2700))
        ELSE withBrightness

\* Thermostat.__init__
ThermostatState ==
    BaseState @@ ("current_temperature" :> N(21)) @@ ("target_temperature" :> N(21))
              @@ ("mode" :> S("off")) @@ ("humidity" :> N(50))

\* SmartLock.__init__
SmartLockState ==
    BaseState @@ ("locked" :> B(TRUE)) @@ ("battery_level" :> N(100))
              @@ ("last_user" :> NoneV)

\* Camera.__init__
CameraState ==
    BaseState @@ ("recording" :> B(FALSE)) @@ ("motion_detected" :> B(FALSE))
              @@ ("resolution" :> S("1080p"))

DeviceRecord(kind, id, name) ==
    [kind |-> kind, id |-> id, name |-> name, dimmable |-> FALSE,
     color_adjustable |-> FALSE, min_temp |-> 0, max_temp |-> 0,
     has_motion_detection |-> FALSE, has_audio |-> FALSE]

\* config = config or {}: None where a config is expected (written as a mapping
\* with the one key "absent") becomes the empty dict
NoConfig == [absent |-> TRUE]
ConfigOrEmpty(config) == IF "absent" \in DOMAIN config THEN <<>> ELSE config

\* LightingDeviceFactory.create_device
LightingDeviceFactory(id, name, config) ==
    [DeviceRecord("light", id, name) EXCEPT
        !.dimmable = DictGet(ConfigOrEmpty(config), "dimmable", TRUE),
        !.color_adjustable = DictGet(ConfigOrEmpty(config), "color_adjustable", FALSE)]

\* ClimateDeviceFactory.create_device
ClimateDeviceFactory(id, name, config) ==
    [DeviceRecord("thermostat", id, name) EXCEPT
        !.min_temp = DictGet(ConfigOrEmpty(config), "min_temp", DefaultMinTemp),
        !.max_temp = DictGet(ConfigOrEmpty(config), "max_temp", DefaultMaxTemp)]

\* A security factory that makes a camera unless a lock is asked for
SecurityDeviceFactoryCameraFirst(id, name, config) ==
    IF DictGet(ConfigOrEmpty(config), "device_subtype", "camera") = "lock"
    THEN DeviceRecord("lock", id, name)
    ELSE [DeviceRecord("camera", id, name) EXCEPT
             !.has_motion_detection =
                 DictGet(ConfigOrEmpty(config), "has_motion_detection", TRUE),
             !.has_audio = DictGet(ConfigOrEmpty(config), "has_audio", TRUE)]

\* SecurityDeviceFactory.create_device
SecurityDeviceFactory(id, name, config) ==
    IF DictGet(ConfigOrEmpty(config), "device_subtype", "lock") = "camera"
    THEN [DeviceRecord("camera", id, name) EXCEPT
             !.has_motion_detection =
                 DictGet(ConfigOrEmpty(config), "has_motion_detection", TRUE),
             !.has_audio = DictGet(ConfigOrEmpty(config), "has_audio", TRUE)]
    ELSE DeviceRecord("lock", id, name)

\* The _state a device is constructed with
InitialState(dev) ==
    CASE dev.kind = "light"      -> SmartLightState(dev.dimmable, dev.color_adjustable)
      [] dev.kind = "thermostat" -> ThermostatState
      [] dev.kind = "camera"     -> CameraState
      [] OTHER                   -> SmartLockState

\* get_device_type, as str(DeviceType.X)
DeviceTypeOf(dev) ==
    CASE dev.kind = "light"      -> "DeviceType.LIGHT"
      [] dev.kind = "thermostat" -> "DeviceType.THERMOSTAT"
      [] dev.kind = "camera"     -> "DeviceType.CAMERA"
      [] OTHER                   -> "DeviceType.LOCK"

\* interfaces/device.py: DeviceCapability
DeviceCapability ==
    {"POWER", "BRIGHTNESS", "COLOR", "TEMPERATURE", "MOTION", "AUDIO", "VIDEO", "LOCK_UNLOCK"}

\* get_device_type of the base devices: the DeviceType member
GetDeviceType(dev) ==
    CASE dev.kind = "light"      -> "LIGHT"
      [] dev.kind = "thermostat" -> "THERMOSTAT"
      [] dev.kind = "camera"     -> "CAMERA"
      [] OTHER                   -> "LOCK"

\* Capabilities read off the state: a light whose brightness is set is dimmable
GetCapabilitiesFromState(dev) ==
    CASE dev.kind = "light" ->
            <<"POWER">> \o (IF dev_state["brightness"] # NoneV THEN <<"BRIGHTNESS">> ELSE <<>>)
                        \o (IF dev.color_adjustable THEN <<"COLOR">> ELSE <<>>)
      [] dev.kind = "thermostat" -> <<"POWER", "TEMPERATURE">>
      [] dev.kind = "camera" ->
            <<"POWER", "VIDEO">> \o (IF dev.has_motion_detection THEN <<"MOTION">> ELSE <<>>)
                                 \o (IF dev.has_audio THEN <<"AUDIO">> ELSE <<>>)
      [] OTHER -> <<"LOCK_UNLOCK">>

\* get_capabilities of the base devices: a list
GetCapabilities(dev) ==
    CASE dev.kind = "light" ->
            <<"POWER">> \o (IF dev.dimmable THEN <<"BRIGHTNESS">> ELSE <<>>)
                        \o (IF dev.color_adjustable THEN <<"COLOR">> ELSE <<>>)
      [] dev.kind = "thermostat" -> <<"POWER", "TEMPERATURE">>
      [] dev.kind = "camera" ->
            <<"POWER", "VIDEO">> \o (IF dev.has_motion_detection THEN <<"MOTION">> ELSE <<>>)
                                 \o (IF dev.has_audio THEN <<"AUDIO">> ELSE <<>>)
      [] OTHER -> <<"LOCK_UNLOCK">>

\* BaseDevice.supports_capability: capability in self.get_capabilities()
SupportsCapability(dev, c) == c \in Range(GetCapabilities(dev))

\* Mutant: a key of the patch that the state lacks is inserted
BaseSetStateInserting(st, p) ==
    [k \in DOMAIN st \cup DOMAIN p |-> IF k \in DOMAIN p THEN p[k] ELSE st[k]]

\* BaseDevice.set_state: the state after the loop over the patch's items
BaseSetState(st, p) ==
    [k \in DOMAIN st |-> IF k \in DOMAIN p THEN p[k] ELSE st[k]]

\* Mutant: the bounds of the range are excluded
TemperatureInRangeExclusive(dev, t) == dev.min_temp < t /\ t < dev.max_temp

\* Thermostat.set_state: self._min_temp <= temp <= self._max_temp
TemperatureInRange(dev, t) == dev.min_temp <= t /\ t <= dev.max_temp

\* Mutant: a rejected patch has its other keys applied before False is returned
DeviceSetStateApplyingRest(dev, st, p) ==
    IF dev.kind = "thermostat" /\ "target_temperature" \in DOMAIN p
    THEN LET temp == p["target_temperature"]
             rest == [k \in DOMAIN p \ {"target_temperature"} |-> p[k]]
         IN
         IF ~IsNumber(temp)
         THEN [ok |-> FALSE, raised |-> TRUE, state |-> st]
         ELSE IF ~TemperatureInRange(dev, temp[2])
         THEN [ok |-> FALSE, raised |-> FALSE, state |-> BaseSetState(st, rest)]
         ELSE [ok |-> TRUE, raised |-> FALSE, state |-> BaseSetState(st, p)]
    ELSE [ok |-> TRUE, raised |-> FALSE, state |-> BaseSetState(st, p)]

\* Thermostat.set_state / BaseDevice.set_state: what the call returns (ok), whether
\* it ends by an exception instead (raised), and the state it leaves
DeviceSetState(dev, st, p) ==
    IF dev.kind = "thermostat" /\ "target_temperature" \in DOMAIN p
    THEN LET temp == p["target_temperature"] IN
         IF ~IsNumber(temp)
         THEN [ok |-> FALSE, raised |-> TRUE, state |-> st]   \* TypeError from <=
         ELSE IF ~TemperatureInRange(dev, temp[2])
         THEN [ok |-> FALSE, raised |-> FALSE, state |-> st]
         ELSE [ok |-> TRUE, raised |-> FALSE, state |-> BaseSetState(st, p)]
    ELSE [ok |-> TRUE, raised |-> FALSE, state |-> BaseSetState(st, p)]

(***************************************************************************)
(* devices/device_decorators.py.  stack[i] is the i-th decorator, stack[1] *)
(* wraps the base device (layer 0) and stack[Len(stack)] is the outermost. *)
(***************************************************************************)
TimerLayer == [kind |-> "Timer", max_history |-> 0, criteria |-> None]
LoggingLayer(n) == [kind |-> "Logging", max_history |-> n, criteria |-> None]
NotificationLayer(c) == [kind |-> "Notification", max_history |-> 0, criteria |-> c]

\* datetime.isoformat(): the text of a time; different times give different texts
IsoFormat(t) == <<"iso", t>>

\* The first entry of the list that is still in the future, whatever its time
NextScheduledActionFirst(sch, t) ==
    LET future == { i \in DOMAIN sch : sch[i].time > t } IN
    IF future = {} THEN NoneV
    ELSE LET i == CHOOSE j \in future : \A k \in future : j <= k
         IN  D([time |-> IsoFormat(sch[i].time), state_changes |-> sch[i].state])

\* TimerDecorator._get_next_scheduled_action when datetime.now() reads t
NextScheduledActionAt(sch, t) ==
    LET future == { i \in DOMAIN sch : sch[i].time > t } IN
    IF future = {} THEN NoneV
    ELSE LET i == CHOOSE j \in future :
                     \A k \in future : sch[j].time < sch[k].time
                                       \/ (sch[j].time = sch[k].time /\ j <= k)
         IN  D([time |-> IsoFormat(sch[i].time), state_changes |-> sch[i].state])

\* TimerDecorator._get_next_scheduled_action
NextScheduledAction(sch) == NextScheduledActionAt(sch, now)

\* get_state() of layer i when the base device's _state is base and
\* datetime.now() reads t
RECURSIVE GetStateAt(_, _, _)
GetStateAt(i, base, t) ==
    IF i = 0 THEN base
    ELSE LET inner == GetStateAt(i - 1, base, t) IN
         CASE stack[i].kind = "Timer" ->
                 DictSet(DictSet(inner, "has_schedules", B(Len(schedules[i]) > 0)),
                         "next_scheduled_action", NextScheduledActionAt(schedules[i], t))
           [] stack[i].kind = "Logging" -> DictSet(inner, "has_history", B(TRUE))
           [] OTHER -> DictSet(inner, "notifications_enabled", B(TRUE))

\* get_state() of layer i when the base device's _state is base
GetStateOf(i, base) == GetStateAt(i, base, now)

\* The keys a decorator's get_state() sets on the copy it got from the inner one
SyntheticKeys(layer) ==
    CASE layer.kind = "Timer"   -> {"has_schedules", "next_scheduled_action"}
      [] layer.kind = "Logging" -> {"has_history"}
      [] OTHER                  -> {"notifications_enabled"}

\* get_name() of layer i, the f-string as its parts
RECURSIVE GetNameOf(_)
GetNameOf(i) ==
    IF i = 0 THEN <<device.name>>
    ELSE GetNameOf(i - 1) \o
         << CASE stack[i].kind = "Timer"   -> " (with Timer)"
              [] stack[i].kind = "Logging" -> " (with Logging)"
              [] OTHER                     -> " (with Notifications)" >>

\* Mutant: the timer decorator advertises a capability of its own
DecoratorCapabilitiesExtended(layer, inner) ==
    IF layer.kind = "Timer" THEN Append(inner, "SCHEDULE") ELSE inner

\* get_capabilities() of a decorator: return self._device.get_capabilities()
DecoratorCapabilities(layer, inner) ==
    CASE layer.kind = "Timer"   -> inner
      [] layer.kind = "Logging" -> inner
      [] OTHER                  -> inner

\* get_id() of layer i: return self._device.get_id()
RECURSIVE GetIdOf(_)
GetIdOf(i) == IF i = 0 THEN device.id ELSE GetIdOf(i - 1)

\* get_device_type() of layer i: return self._device.get_device_type()
RECURSIVE GetDeviceTypeOf(_)
GetDeviceTypeOf(i) == IF i = 0 THEN GetDeviceType(device) ELSE GetDeviceTypeOf(i - 1)

\* get_capabilities() of layer i
RECURSIVE GetCapabilitiesOf(_)
GetCapabilitiesOf(i) ==
    IF i = 0 THEN GetCapabilities(device)
    ELSE DecoratorCapabilities(stack[i], GetCapabilitiesOf(i - 1))

\* supports_capability(c) of layer i: the base device looks c up in its own
\* get_capabilities(), a decorator forwards the call
RECURSIVE SupportsCapabilityOf(_, _)
SupportsCapabilityOf(i, c) ==
    IF i = 0 THEN SupportsCapability(device, c) ELSE SupportsCapabilityOf(i - 1, c)

\* The criteria of the model: None, or "notify when key k changed" as in
\* only_notify_lock_changes of the tests
Criteria(k, old, new) ==
    k \in DOMAIN old /\ k \in DOMAIN new /\ ~PyEq(old[k], new[k])

\* Mutant: the diff is taken over every key of the patch
ChangesOfPatch(old, p) ==
    [k \in DOMAIN p |->
        [from |-> IF k \in DOMAIN old THEN old[k] ELSE NoneV, to |-> p[k]]]

\* LoggingDecorator._add_history_entry: the changes dict
Changes(old, p) ==
    [k \in { x \in DOMAIN p : x \in DOMAIN old /\ ~PyEq(old[x], p[x]) } |->
        [from |-> old[k], to |-> p[k]]]

\* LoggingDecorator._add_history_entry: append when something changed, then
\* keep the last max_history entries
AddHistoryEntry(hist, maxh, old, p) ==
    LET changes == Changes(old, p) IN
    IF DOMAIN changes = {} THEN hist
    ELSE LET appended == Append(hist, [timestamp |-> IsoFormat(now), changes |-> changes])
         IN  IF Len(appended) > maxh THEN LastN(appended, maxh) ELSE appended

\* NotificationDecorator._publish_state_change_event: the event
StateChangeEvent(i, old, new) ==
    Event("DEVICE_STATE_CHANGED", device.id,
          [device_name |-> GetNameOf(i), device_type |-> DeviceTypeOf(device),
           old_state |-> old, new_state |-> new])

Step(kind, layer, what) == [kind |-> kind, layer |-> layer, what |-> what]

\* What a call returned: "raise" when it ended by an exception
Returned(r) == IF r.raised THEN "raise" ELSE IF r.ok THEN "true" ELSE "false"

\* A publisher that swallows what a listener's update raises
PublishNeverFails(e) == FALSE

\* event_publisher.notify(event) ends by an exception: a listener registered for
\* the event's type has an update that raises
PublishFails(e) == \E l \in SubscribersFor(subscribers, e) : l \in FailingListeners

\* Mutant: the notification decorator publishes whether or not the inner call succeeded
NotifyAlways(inner, i, old) ==
    [inner EXCEPT !.trace = Append(@, Step("notify", i,
                      StateChangeEvent(i, old, GetStateOf(i - 1, inner.state))))]

\* Mutant: the notification decorator publishes before it calls the inner set_state
NotificationBefore(inner, i, old) ==
    IF inner.raised \/ ~inner.ok THEN inner
    ELSE [inner EXCEPT !.trace =
              <<Step("notify", i, StateChangeEvent(i, old, GetStateOf(i - 1, inner.state)))>>
              \o @]

\* NotificationDecorator.set_state after the inner call returned
NotificationAfter(inner, i, old) ==
    IF inner.raised \/ ~inner.ok THEN inner
    ELSE LET new == GetStateOf(i - 1, inner.state)
             should_notify == IF stack[i].criteria # None
                              THEN Criteria(stack[i].criteria, old, new) ELSE TRUE
             event == StateChangeEvent(i, old, new)
         IN  IF should_notify
             THEN [inner EXCEPT !.trace = Append(@, Step("notify", i, event)),
                                !.raised = PublishFails(event),
                                !.ok = ~PublishFails(event)]
             ELSE inner

\* Mutant: the logging decorator reports a call that changed nothing as a failure
LoggingAfterRejectingUnchanged(inner, i, old, p) ==
    IF inner.raised \/ ~inner.ok THEN inner
    ELSE IF DOMAIN Changes(old, p) = {} THEN [inner EXCEPT !.ok = FALSE]
    ELSE [inner EXCEPT !.history[i] =
                           AddHistoryEntry(inner.history[i], stack[i].max_history, old, p),
                       !.trace = Append(@, Step("history", i, Changes(old, p)))]

\* LoggingDecorator.set_state after the inner call returned
LoggingAfter(inner, i, old, p) ==
    IF inner.raised \/ ~inner.ok THEN inner
    ELSE LET h == AddHistoryEntry(inner.history[i], stack[i].max_history, old, p) IN
         [inner EXCEPT !.history[i] = h,
                       !.trace = IF DOMAIN Changes(old, p) = {} THEN @
                                 ELSE Append(@, Step("history", i, Changes(old, p)))]

\* set_state(p) on layer i: what it returns, the state and histories it leaves,
\* the side effects in the order they happen, what each layer returned
\* (ret[1] is the base device's result, ret[j + 1] that of layer j) and the
\* patch each layer was called with (passed, in the same order)
RECURSIVE SetStateAt(_, _)
SetStateAt(i, p) ==
    IF i = 0
    THEN LET r == DeviceSetState(device, dev_state, p) IN
         [ok |-> r.ok, raised |-> r.raised, state |-> r.state, history |-> history,
          trace |-> IF r.ok THEN <<Step("state", 0, r.state)>> ELSE <<>>,
          ret |-> <<Returned(r)>>, passed |-> <<p>>]
    ELSE LET old   == GetStateOf(i - 1, dev_state)
             inner == SetStateAt(i - 1, p)
             out   == CASE stack[i].kind = "Timer"   -> inner
                        [] stack[i].kind = "Logging" -> LoggingAfter(inner, i, old, p)
                        [] OTHER                     -> NotificationAfter(inner, i, old)
         IN  [out EXCEPT !.ret = Append(@, Returned(out)), !.passed = Append(@, p)]

\* The events a call published, in order
RECURSIVE Published(_)
Published(trace) ==
    IF trace = <<>> THEN <<>>
    ELSE (IF Head(trace).kind = "notify" THEN <<Head(trace).what>> ELSE <<>>)
         \o Published(Tail(trace))

\* EventManager.notify for each published event: the listeners' lists afterwards
RECURSIVE DeliverAll(_, _)
DeliverAll(logs, events) ==
    IF events = <<>> THEN logs
    ELSE LET e  == Head(events)
             to == SubscribersFor(subscribers, e)
         IN  DeliverAll(
                [event_log |-> IF "logger" \in to
                                 THEN LoggingUpdate(logs.event_log, max_log_size, e)
                                 ELSE logs.event_log,
                 notification_history |-> IF "notifier" \in to
                                 THEN NotificationUpdate(logs.notification_history, e)
                                 ELSE logs.notification_history],
                Tail(events))

InitDevice(dev, stk) ==
    /\ device = dev
    /\ dev_state = InitialState(dev)
    /\ stack = stk
    /\ history = [i \in DOMAIN stk |-> <<>>]
    /\ schedules = [i \in DOMAIN stk |-> <<>>]
    /\ now = 0
    /\ ncalls = 0

\* set_state(p) on the outermost decorator
SetState(p) ==
    LET r    == SetStateAt(Len(stack), p)
        logs == DeliverAll([event_log |-> event_log,
                            notification_history |-> notification_history],
                           Published(r.trace))
    IN
    /\ ncalls < MaxCalls
    /\ dev_state' = r.state
    /\ history' = r.history
    /\ event_log' = logs.event_log
    /\ notification_history' = logs.notification_history
    /\ ncalls' = ncalls + 1
    /\ last' = [op |-> "set_state", patch |-> p, ok |-> r.ok, raised |-> r.raised,
                ret |-> r.ret, passed |-> r.passed, trace |-> r.trace, pre |-> dev_state,
                prehist |-> history,
                prev |-> IF last.op = "set_state" THEN <<last.patch>> ELSE <<>>]
    /\ UNCHANGED <<subscribers, event_types, max_log_size, iter, interest, nnotify,
                   device, stack, schedules, now>>

\* Mutant: a time equal to the current time is accepted
ScheduleRejectsBefore(time) == time < now

\* TimerDecorator.schedule_action: time <= datetime.now()
ScheduleRejects(time) == time <= now

\* timer.schedule_action(time, p) on the timer decorator at layer i
ScheduleAction(i, time, p) ==
    /\ i \in DOMAIN stack
    /\ stack[i].kind = "Timer"
    /\ Len(schedules[i]) < MaxSchedules
    /\ schedules' = IF ScheduleRejects(time) THEN schedules
                     ELSE [schedules EXCEPT ![i] = Append(@, [time |-> time, state |-> p])]
    /\ last' = [op |-> "schedule_action", layer |-> i, time |-> time, state |-> p,
                ok |-> ~ScheduleRejects(time), at |-> now, pre |-> schedules[i]]
    /\ UNCHANGED <<routerVars, device, dev_state, stack, history, now, ncalls>>

\* A cancel that drops only the entries still to come
CancelPendingSchedules(i) ==
    /\ i \in DOMAIN stack
    /\ stack[i].kind = "Timer"
    /\ schedules' = [schedules EXCEPT ![i] = SelectSeq(@, LAMBDA s : s.time <= now)]
    /\ last' = [op |-> "cancel_all_schedules", layer |-> i, pre |-> schedules[i]]
    /\ UNCHANGED <<routerVars, device, dev_state, stack, history, now, ncalls>>

\* timer.cancel_all_schedules() on the timer decorator at layer i
CancelAllSchedules(i) ==
    /\ i \in DOMAIN stack
    /\ stack[i].kind = "Timer"
    /\ schedules' = [schedules EXCEPT ![i] = <<>>]
    /\ last' = [op |-> "cancel_all_schedules", layer |-> i, pre |-> schedules[i]]
    /\ UNCHANGED <<routerVars, device, dev_state, stack, history, now, ncalls>>

\* A clock whose passing fires the entries that fall due: their patches are
\* written to the device and the entries are dropped
TickFiring ==
    /\ now < MaxTime
    /\ now' = now + 1
    /\ schedules' = [i \in DOMAIN schedules |->
                        SelectSeq(schedules[i], LAMBDA s : s.time > now + 1)]
    /\ dev_state' =
          IF \E i \in DOMAIN schedules : \E j \in DOMAIN schedules[i] :
                 schedules[i][j].time = now + 1
          THEN LET i == CHOOSE i \in DOMAIN schedules :
                          \E j \in DOMAIN schedules[i] : schedules[i][j].time = now + 1
                   j == CHOOSE j \in DOMAIN schedules[i] : schedules[i][j].time = now + 1
               IN  DeviceSetState(device, dev_state, schedules[i][j].state).state
          ELSE dev_state
    /\ UNCHANGED <<routerVars, device, stack, history, ncalls, last>>

\* datetime.now() moves on between two calls
Tick ==
    /\ now < MaxTime
    /\ now' = now + 1
    /\ UNCHANGED <<routerVars, device, dev_state, stack, history, schedules, ncalls, last>>

\* The times and patches schedule_action is called with
ScheduleTimes == { now, now + 1, now + 2 }

ScheduledPatches ==
    { "power" :> B(FALSE), ("power" :> B(TRUE)) @@ ("brightness" :> N(75)) }

\* The stacks with a timer decorator
TimerStacks == { <<TimerLayer>> }

\* The devices of the model, made by the factories with default configuration, and
\* a thermostat with a range of its own
Devices ==
    { LightingDeviceFactory("light-living-1", "Living Room Light", <<>>),
      ClimateDeviceFactory("therm-bed-1", "Bedroom Thermostat", <<>>),
      ClimateDeviceFactory("test-therm-2", "Custom Range Thermostat",
                           [min_temp |-> 5, max_temp |-> 40]),
      SecurityDeviceFactory("lock-front-1", "Front Door Lock", <<>>) }

\* The decorator stacks of the model
HistoryBounds == 0 .. MaxHistory
CriteriaChoices == { None, "locked", "target_temperature" }

Stacks ==
    { <<>>, <<TimerLayer>> }
    \cup { <<LoggingLayer(n)>> : n \in HistoryBounds }
    \cup { <<NotificationLayer(c)>> : c \in CriteriaChoices }
    \cup { <<LoggingLayer(1), NotificationLayer(None)>> }
    \cup { <<NotificationLayer(c), LoggingLayer(1)>> : c \in CriteriaChoices }
    \cup { <<TimerLayer, LoggingLayer(1)>> }
    \cup { <<LoggingLayer(1), LoggingLayer(1)>> }
    \cup { <<TimerLayer, LoggingLayer(1), NotificationLayer(None)>> }

\* The patches of the model
Patches(dev) ==
    { "power" :> B(TRUE),
      "no_such_key" :> N(1),
      ("power" :> B(TRUE)) @@ ("no_such_key" :> N(1)),
      "has_schedules" :> B(TRUE),
      "has_history" :> B(FALSE) }
    \cup
    CASE dev.kind = "light" ->
            { ("power" :> B(TRUE)) @@ ("brightness" :> N(80)), "brightness" :> N(50) }
      [] dev.kind = "thermostat" ->
            { "target_temperature" :> N(dev.min_temp - 1),
              "target_temperature" :> N(dev.min_temp),
              "target_temperature" :> N(dev.max_temp),
              "target_temperature" :> N(dev.max_temp + 1),
              ("target_temperature" :> N(22)) @@ ("mode" :> S("heat")),
              ("target_temperature" :> N(dev.max_temp + 8)) @@ ("power" :> B(TRUE)),
              ("mode" :> S("cool")) @@ ("target_temperature" :> N(dev.min_temp - 1)),
              "target_temperature" :> NoneV,
              "target_temperature" :> S("warm") }
      [] dev.kind = "camera" -> { "recording" :> B(TRUE) }
      [] OTHER ->
            { "locked" :> B(FALSE), "battery_level" :> N(85),
              ("locked" :> B(FALSE)) @@ ("last_user" :> S("user_123")) }

\* main.py: the logger (all types) and the notifier (defaults) are subscribed
InitWiredRouter ==
    /\ event_types = [l \in Listener |->
                           CASE l = "logger"   -> LoggingEventTypes(NoneList)
                             [] l = "notifier" -> NotificationEventTypes(NoneList)
                             [] OTHER          -> CustomTypes]
    /\ subscribers = SubscribeLoop(SubscribeLoop(EventManagerInit, "logger",
                                                 LoggingEventTypes(NoneList)),
                                   "notifier", NotificationEventTypes(NoneList))
    /\ interest = [l \in Listener |->
                           CASE l = "logger"   -> Range(LoggingEventTypes(NoneList))
                             [] l = "notifier" -> Range(NotificationEventTypes(NoneList))
                             [] OTHER          -> {}]
    /\ event_log = <<>>
    /\ max_log_size = 1
    /\ notification_history = <<>>
    /\ iter = NoIter
    /\ nnotify = 0
    /\ last = [op |-> "init"]

vars == <<subscribers, event_types, event_log, max_log_size, notification_history,
          iter, interest, nnotify, device, dev_state, stack, history, schedules,
          now, ncalls, last>>

\* The router on its own: the device is a plain lock nobody calls
Init == InitRouter /\ InitDevice(SecurityDeviceFactory("lock-front-1", "Front Door Lock", <<>>), <<>>)

Next ==
    \/ \E l \in Listener : Subscribe(l)
    \/ \E l \in Listener : Unsubscribe(l)
    \/ \E e \in EventChoices : Notify(e)
    \/ \E m \in BOOLEAN, d \in BOOLEAN, s \in BOOLEAN :
          UpdateNotificationPreferences(m, d, s)

Spec == Init /\ [][Next]_vars

NextReentrant ==
    \/ \E l \in Listener : Subscribe(l)
    \/ \E l \in Listener : Unsubscribe(l)
    \/ \E e \in EventChoices : NotifyBegin(e)
    \/ \E l \in Listener : \E calls \in Reactions(l) : NotifyNext(l, calls)
    \/ NotifyRaise
    \/ NotifyReturn

SpecReentrant == Init /\ [][NextReentrant]_vars

\* notify with a listener whose update raises; the other listeners' updates
\* return and call nothing
NextFailing ==
    \/ \E l \in Listener : Subscribe(l)
    \/ \E l \in Listener : Unsubscribe(l)
    \/ \E e \in EventChoices : NotifyBegin(e)
    \/ \E l \in Listener \ FailingListeners : NotifyNext(l, <<>>)
    \/ \E l \in FailingListeners : UpdateFails(l)
    \/ NotifyReturn

SpecFailing == Init /\ [][NextFailing]_vars

\* notify in one thread, subscribe and unsubscribe in another
NextConcurrent ==
    \/ \E l \in Listener : Subscribe(l)
    \/ \E l \in Listener : Unsubscribe(l)
    \/ \E e \in EventChoices : NotifyBegin(e)
    \/ \E l \in Listener : NotifyNext(l, <<>>)
    \/ \E l \in ThreadListeners : ThreadSubscribe(l)
    \/ \E l \in ThreadListeners : ThreadUnsubscribe(l)
    \/ NotifyRaise
    \/ NotifyReturn

SpecConcurrent == Init /\ [][NextConcurrent]_vars

\* The logging listener with each bound from 0 on
InitLoggers ==
    /\ \E n \in 0 .. MaxLog : InitLogging(n)
    /\ InitDevice(SecurityDeviceFactory("lock-front-1", "Front Door Lock", <<>>), <<>>)

NextLoggers ==
    \/ \E e \in LoggedEvents : LoggerUpdate(e)
    \/ ClearLog

SpecLoggers == InitLoggers /\ [][NextLoggers]_vars

\* A decorated device wired to the router, driven by set_state calls
InitDecorated ==
    /\ InitWiredRouter
    /\ \E dev \in Devices, stk \in Stacks : InitDevice(dev, stk)

NextDecorated == \E p \in Patches(device) : SetState(p)

SpecDecorated == InitDecorated /\ [][NextDecorated]_vars

\* main.py's notifying lock on the wired router: events are published on the
\* router directly and by set_state, while listeners come and go.  The
\* notification service is the default one or one constructed with a list of
\* its own that names DEVICE_STATE_CHANGED.
DispatchNotifierTypes ==
    { NotificationEventTypes(NoneList),
      NotificationEventTypes(<<"DEVICE_STATE_CHANGED", "MOTION_DETECTED">>) }

DispatchPatches ==
    { "locked" :> B(FALSE),
      ("locked" :> B(FALSE)) @@ ("last_user" :> S("user_123")) }

InitDispatch ==
    /\ \E types \in DispatchNotifierTypes :
          /\ event_types = [l \in Listener |->
                               CASE l = "logger"   -> LoggingEventTypes(NoneList)
                                 [] l = "notifier" -> types
                                 [] OTHER          -> CustomTypes]
          /\ subscribers = SubscribeLoop(SubscribeLoop(EventManagerInit, "logger",
                                                       LoggingEventTypes(NoneList)),
                                         "notifier", types)
          /\ interest = [l \in Listener |->
                               CASE l = "logger"   -> Range(LoggingEventTypes(NoneList))
                                 [] l = "notifier" -> Range(types)
                                 [] OTHER          -> {}]
    /\ event_log = <<>>
    /\ max_log_size = 1
    /\ notification_history = <<>>
    /\ iter = NoIter
    /\ nnotify = 0
    /\ last = [op |-> "init"]
    /\ InitDevice(SecurityDeviceFactory("lock-front-1", "Front Door Lock", <<>>),
                  <<NotificationLayer(None)>>)

NextDispatch ==
    \/ \E l \in {"logger", "notifier"} : Subscribe(l)
    \/ \E l \in {"logger", "notifier"} : Unsubscribe(l)
    \/ \E e \in EventChoices : Notify(e)
    \/ \E p \in DispatchPatches : SetState(p)

SpecDispatch == InitDispatch /\ [][NextDispatch]_vars

\* LoggingEventSubscriber(event_types=arg) for no argument and for explicit lists,
\* the empty one included; the listener is subscribed, unsubscribed and notified
LoggerArgs ==
    { NoneList, <<>>, <<"MOTION_DETECTED">>, <<"MOTION_DETECTED", "DOOR_OPENED">> }

InitSubsets ==
    /\ \E arg \in LoggerArgs, subscribed \in BOOLEAN :
          /\ event_types = [l \in Listener |->
                               CASE l = "logger"   -> LoggingEventTypes(arg)
                                 [] l = "notifier" -> NotificationEventTypes(NoneList)
                                 [] OTHER          -> CustomTypes]
          /\ last = [op |-> "init", arg |-> arg]
          /\ subscribers = IF subscribed
                           THEN SubscribeLoop(EventManagerInit, "logger",
                                              LoggingEventTypes(arg))
                           ELSE EventManagerInit
          /\ interest = [l \in Listener |->
                           IF subscribed /\ l = "logger"
                           THEN Range(LoggingEventTypes(arg)) ELSE {}]
    /\ event_log = <<>>
    /\ max_log_size = DefaultMaxLogSize
    /\ notification_history = <<>>
    /\ iter = NoIter
    /\ nnotify = 0
    /\ InitDevice(SecurityDeviceFactory("lock-front-1", "Front Door Lock", <<>>), <<>>)

NextSubsets ==
    \/ \E l \in {"logger", "notifier"} : Subscribe(l)
    \/ \E l \in {"logger", "notifier"} : Unsubscribe(l)
    \/ \E e \in EventChoices : Notify(e)

SpecSubsets == InitSubsets /\ [][NextSubsets]_vars

\* End to end: LoggingEventSubscriber() and NotificationService() subscribed on
\* one router, events of every type published on it, and main.py's notifying
\* lock publishing through its decorator
EndToEndEvents == { EventWithoutData(t, "test-source") : t \in EventType }

InitEndToEnd ==
    /\ event_types = [l \in Listener |->
                           CASE l = "logger"   -> LoggingEventTypes(NoneList)
                             [] l = "notifier" -> NotificationEventTypes(NoneList)
                             [] OTHER          -> CustomTypes]
    /\ subscribers = SubscribeLoop(SubscribeLoop(EventManagerInit, "logger",
                                                 LoggingEventTypes(NoneList)),
                                   "notifier", NotificationEventTypes(NoneList))
    /\ interest = [l \in Listener |->
                           CASE l = "logger"   -> Range(LoggingEventTypes(NoneList))
                             [] l = "notifier" -> Range(NotificationEventTypes(NoneList))
                             [] OTHER          -> {}]
    /\ event_log = <<>>
    /\ max_log_size = DefaultMaxLogSize
    /\ notification_history = <<>>
    /\ iter = NoIter
    /\ nnotify = 0
    /\ last = [op |-> "init"]
    /\ InitDevice(SecurityDeviceFactory("lock-front-1", "Front Door Lock", <<>>),
                  <<NotificationLayer(None)>>)

NextEndToEnd ==
    \/ \E e \in EndToEndEvents : Notify(e)
    \/ SetState("locked" :> B(FALSE))

SpecEndToEnd == InitEndToEnd /\ [][NextEndToEnd]_vars

\* The scheduled light of main.py: a timer decorator, the clock, and set_state calls
InitTimer ==
    /\ InitWiredRouter
    /\ \E stk \in TimerStacks :
          InitDevice(LightingDeviceFactory("light-living-1", "Living Room Light", <<>>), stk)

NextTimer ==
    \/ \E i \in DOMAIN stack, t \in ScheduleTimes, p \in ScheduledPatches :
          ScheduleAction(i, t, p)
    \/ \E i \in DOMAIN stack : CancelAllSchedules(i)
    \/ Tick
    \/ SetState("power" :> B(TRUE))

SpecTimer == InitTimer /\ [][NextTimer]_vars

\* NotificationDecorator.set_state(p) on the outermost decorator while the clock
\* runs: the state before is read at now, the criteria is called with the inner
\* get_state() read at t1, the event is built from the inner get_state() read at
\* t2, and the call returns at t2
SetStateClocked(p, t1, t2) ==
    LET top    == Len(stack)
        old    == GetStateAt(top - 1, dev_state, now)
        inner  == SetStateAt(top - 1, p)
        seen   == GetStateAt(top - 1, inner.state, t1)
        new    == GetStateAt(top - 1, inner.state, t2)
        should_notify == IF stack[top].criteria # None
                         THEN Criteria(stack[top].criteria, old, seen) ELSE TRUE
        out    == IF inner.raised \/ ~inner.ok THEN inner
                  ELSE IF should_notify
                       THEN [inner EXCEPT !.trace = Append(@, Step("notify", top,
                                                     StateChangeEvent(top, old, new)))]
                       ELSE inner
        r      == [out EXCEPT !.ret = Append(@, Returned(out)), !.passed = Append(@, p)]
        logs   == DeliverAll([event_log |-> event_log,
                              notification_history |-> notification_history],
                             Published(r.trace))
    IN
    /\ top >= 1
    /\ stack[top].kind = "Notification"
    /\ ncalls < MaxCalls
    /\ now <= t1 /\ t1 <= t2 /\ t2 <= MaxTime
    /\ stack[top].criteria = None => t1 = t2
    /\ dev_state' = r.state
    /\ history' = r.history
    /\ event_log' = logs.event_log
    /\ notification_history' = logs.notification_history
    /\ ncalls' = ncalls + 1
    /\ now' = t2
    /\ last' = [op |-> "set_state", patch |-> p, ok |-> r.ok, raised |-> r.raised,
                ret |-> r.ret, passed |-> r.passed, trace |-> r.trace, pre |-> dev_state,
                prehist |-> history,
                prev |-> IF last.op = "set_state" THEN <<last.patch>> ELSE <<>>,
                at |-> now,
                judged |-> IF inner.raised \/ ~inner.ok \/ stack[top].criteria = None
                           THEN <<>> ELSE <<[old |-> old, new |-> seen]>>]
    /\ UNCHANGED <<subscribers, event_types, max_log_size, iter, interest, nnotify,
                   device, stack, schedules>>

\* A notification decorator around a timer decorator; the criteria of the second
\* stack asks whether the next scheduled action changed
ClockedStacks ==
    { <<TimerLayer, NotificationLayer(None)>>,
      <<TimerLayer, NotificationLayer("next_scheduled_action")>> }

ClockTimes == now .. MaxTime

InitClocked ==
    /\ InitWiredRouter
    /\ \E stk \in ClockedStacks :
          InitDevice(LightingDeviceFactory("light-living-1", "Living Room Light", <<>>), stk)

NextClocked ==
    \/ \E i \in DOMAIN stack, t \in ScheduleTimes :
          ScheduleAction(i, t, "power" :> B(FALSE))
    \/ Tick
    \/ \E t1, t2 \in ClockTimes : SetStateClocked("power" :> B(TRUE), t1, t2)

SpecClocked == InitClocked /\ [][NextClocked]_vars

\* del d[k]
DictDel(d, k) == [x \in DOMAIN d \ {k} |-> d[x]]

\* The stored entry whose patch object _get_next_scheduled_action puts under
\* 'state_changes' when datetime.now() reads t: its place in the list, 0 for None
NextScheduleIndex(sch, t) ==
    LET future == { i \in DOMAIN sch : sch[i].time > t } IN
    IF future = {} THEN 0
    ELSE CHOOSE j \in future :
             \A k \in future : sch[j].time < sch[k].time
                               \/ (sch[j].time = sch[k].time /\ j <= k)

\* The timer decorator whose next_scheduled_action get_state() of layer i returns:
\* the outermost one up to layer i, 0 when there is none
TimerLayerBelow(i) ==
    LET timers == { j \in 1 .. i : stack[j].kind = "Timer" } IN
    IF timers = {} THEN 0 ELSE CHOOSE j \in timers : \A k \in timers : k <= j

\* What the caller holds after get_state() of layer i. The mapping is a new one
\* (BaseDevice.get_state copies _state and the decorators add their keys to that
\* copy) and so is the mapping under 'next_scheduled_action'; the mapping under its
\* 'state_changes' is the patch object of the stored entry itself, named here by
\* the entry's layer and place
ReturnedState(i) ==
    LET tl == TimerLayerBelow(i)
        j  == IF tl = 0 THEN 0 ELSE NextScheduleIndex(schedules[tl], now)
    IN  [value |-> GetStateOf(i, dev_state),
         entry |-> IF j = 0 THEN <<>> ELSE <<tl, j>>]

\* state = device.get_state() on layer i (0 is the base device)
GetState(i) ==
    /\ i \in 0 .. Len(stack)
    /\ last' = [op |-> "get_state", layer |-> i, returned |-> ReturnedState(i)]
    /\ UNCHANGED <<routerVars, deviceVars>>

\* state[k] = v by the caller, on the mapping get_state() returned
WriteKey(k, v) ==
    /\ "returned" \in DOMAIN last
    /\ last' = [op |-> "write", layer |-> last.layer,
                returned |-> [last.returned EXCEPT !.value = DictSet(@, k, v)]]
    /\ UNCHANGED <<routerVars, deviceVars>>

\* del state[k] by the caller, on the mapping get_state() returned
DeleteKey(k) ==
    /\ "returned" \in DOMAIN last
    /\ k \in DOMAIN last.returned.value
    /\ last' = [op |-> "write", layer |-> last.layer,
                returned |-> [last.returned EXCEPT !.value = DictDel(@, k)]]
    /\ UNCHANGED <<routerVars, deviceVars>>

\* state['next_scheduled_action']['state_changes'][k] = v by the caller: the
\* mapping written is the stored entry's patch
WriteStateChanges(k, v) ==
    /\ "returned" \in DOMAIN last
    /\ last.returned.entry # <<>>
    /\ LET tl   == last.returned.entry[1]
           j    == last.returned.entry[2]
           new  == DictSet(schedules[tl][j].state, k, v)
           next == last.returned.value["next_scheduled_action"][2]
       IN  /\ schedules' = [schedules EXCEPT ![tl][j].state = new]
           /\ last' = [op |-> "write", layer |-> last.layer,
                       returned |-> [last.returned EXCEPT
                           !.value["next_scheduled_action"] =
                               D([next EXCEPT !.state_changes = new])]]
    /\ UNCHANGED <<routerVars, device, dev_state, stack, history, now, ncalls>>

\* set_state(p) on the outermost decorator while the caller holds a mapping that
\* get_state() returned
SetStateHolding(p) ==
    LET r    == SetStateAt(Len(stack), p)
        logs == DeliverAll([event_log |-> event_log,
                            notification_history |-> notification_history],
                           Published(r.trace))
    IN
    /\ "returned" \in DOMAIN last
    /\ ncalls < MaxCalls
    /\ dev_state' = r.state
    /\ history' = r.history
    /\ event_log' = logs.event_log
    /\ notification_history' = logs.notification_history
    /\ ncalls' = ncalls + 1
    /\ last' = [op |-> "set_state", layer |-> last.layer, returned |-> last.returned,
                ok |-> r.ok]
    /\ UNCHANGED <<subscribers, event_types, max_log_size, iter, interest, nnotify,
                   device, stack, schedules, now>>

\* The stacks get_state() is called on
QueryStacks == { <<>>, <<TimerLayer>>, <<TimerLayer, LoggingLayer(1)>> }

\* The keys and values the caller writes
WrittenKeys == { "power", "note" }
WrittenValues == { B(TRUE) }

InitQueries ==
    /\ InitWiredRouter
    /\ \E stk \in QueryStacks :
          InitDevice(LightingDeviceFactory("light-living-1", "Living Room Light", <<>>), stk)

NextQueries ==
    \/ \E i \in 0 .. Len(stack) : GetState(i)
    \/ \E k \in WrittenKeys, v \in WrittenValues : WriteKey(k, v)
    \/ \E k \in WrittenKeys : DeleteKey(k)
    \/ \E v \in WrittenValues : WriteStateChanges("power", v)
    \/ SetStateHolding("power" :> B(TRUE))
    \/ \E i \in DOMAIN stack, t \in ScheduleTimes :
          ScheduleAction(i, t, "power" :> B(FALSE))
    \/ Tick

SpecQueries == InitQueries /\ [][NextQueries]_vars

\* factory.create_device(id, name, config) of the three factories
Factories == {"LightingDeviceFactory", "ClimateDeviceFactory", "SecurityDeviceFactory"}

CreateDeviceOf(factory, id, name, config) ==
    CASE factory = "LightingDeviceFactory" -> LightingDeviceFactory(id, name, config)
      [] factory = "ClimateDeviceFactory"  -> ClimateDeviceFactory(id, name, config)
      [] OTHER                             -> SecurityDeviceFactory(id, name, config)

\* The configs the factories are called with: none, empty, and the keys they read
FactoryConfigs(factory) ==
    { NoConfig, <<>> } \cup
    CASE factory = "LightingDeviceFactory" ->
            { [dimmable |-> FALSE], [color_adjustable |-> TRUE],
              [dimmable |-> FALSE, color_adjustable |-> TRUE] }
      [] factory = "ClimateDeviceFactory" ->
            { [min_temp |-> 5, max_temp |-> 40], [min_temp |-> 25, max_temp |-> 30],
              [max_temp |-> 18] }
      [] OTHER ->
            { [device_subtype |-> "camera"], [device_subtype |-> "lock"],
              [device_subtype |-> "doorbell"],
              [device_subtype |-> "camera", has_audio |-> FALSE],
              [has_motion_detection |-> FALSE] }

\* The ids and names the factories are called with
FactoryNames ==
    { <<"test-light-1", "Test Light">>, <<"lock-front-1", "Front Door Lock">> }

\* device = factory.create_device(id, name, config): a new bare device
CreateDevice(factory, id, name, config) ==
    LET dev == CreateDeviceOf(factory, id, name, config) IN
    /\ device' = dev
    /\ dev_state' = InitialState(dev)
    /\ stack' = <<>>
    /\ history' = <<>>
    /\ schedules' = <<>>
    /\ ncalls' = 0
    /\ last' = [op |-> "create_device", factory |-> factory, id |-> id, name |-> name,
                config |-> config]
    /\ UNCHANGED <<routerVars, now>>

InitFactories ==
    /\ InitRouter
    /\ InitDevice(LightingDeviceFactory("test-light-1", "Test Light", NoConfig), <<>>)

NextFactories ==
    \/ \E f \in Factories, n \in FactoryNames :
          \E c \in FactoryConfigs(f) : CreateDevice(f, n[1], n[2], c)
    \/ \E p \in Patches(device) : SetState(p)

SpecFactories == InitFactories /\ [][NextFactories]_vars

\* service.update(event), called on the notification service directly
NotifierUpdate(e) ==
    /\ Len(last.arrived) < MaxUpdates
    /\ notification_history' = NotificationUpdate(notification_history, e)
    /\ last' = [op |-> "update", arrived |-> Append(last.arrived, e)]
    /\ UNCHANGED <<subscribers, event_types, event_log, max_log_size, iter, interest,
                   nnotify, deviceVars>>

\* The events the notification service is updated with: every branch of the
\* message builder, with and without the payload keys it reads
MessageEvents ==
    { EventWithoutData("MOTION_DETECTED", "hallway-sensor"),
      EventWithoutData("DOOR_OPENED", "front-door"),
      Event("SYSTEM_ALERT", "system",
            [severity |-> "critical", message |-> "Power outage detected"]),
      Event("SYSTEM_ALERT", "system", [severity |-> "warning"]),
      Event("SYSTEM_ALERT", "system", [message |-> "Power outage detected"]),
      EventWithoutData("SYSTEM_ALERT", "system"),
      Event("DEVICE_STATE_CHANGED", "lock-front-1", [device_name |-> "Front Door Lock"]),
      EventWithoutData("DEVICE_STATE_CHANGED", "lock-front-1"),
      EventWithoutData("DOOR_CLOSED", "front-door") }

\* NotificationService(), not subscribed anywhere
InitNotifier ==
    /\ subscribers = EventManagerInit
    /\ event_types = [l \in Listener |->
                           CASE l = "logger"   -> LoggingEventTypes(NoneList)
                             [] l = "notifier" -> NotificationEventTypes(NoneList)
                             [] OTHER          -> CustomTypes]
    /\ event_log = <<>>
    /\ max_log_size = DefaultMaxLogSize
    /\ notification_history = <<>>
    /\ iter = NoIter
    /\ interest = [l \in Listener |-> {}]
    /\ nnotify = 0
    /\ last = [op |-> "init", arrived |-> <<>>]
    /\ InitDevice(SecurityDeviceFactory("lock-front-1", "Front Door Lock", <<>>), <<>>)

NextNotifier == \E e \in MessageEvents : NotifierUpdate(e)

SpecNotifier == InitNotifier /\ [][NextNotifier]_vars

\* EventManager.notify for the events of a call whose last publish ended by a
\* listener's exception: the earlier events reached every listener, the last one
\* only the listeners the set's iterator yielded before the failing one
DeliverUntilFailure(logs, events, reached) ==
    LET e     == events[Len(events)]
        to    == SubscribersFor(subscribers, e) \cap reached
        first == DeliverAll(logs, SubSeq(events, 1, Len(events) - 1))
    IN  [event_log |-> IF "logger" \in to
                       THEN LoggingUpdate(first.event_log, max_log_size, e)
                       ELSE first.event_log,
         notification_history |-> IF "notifier" \in to
                       THEN NotificationUpdate(first.notification_history, e)
                       ELSE first.notification_history]

\* set_state(p) on the outermost decorator while a listener whose update raises
\* may be registered; reached are the listeners that were updated before it
SetStateRaising(p, reached) ==
    LET r      == SetStateAt(Len(stack), p)
        events == Published(r.trace)
        failed == events # <<>> /\ PublishFails(events[Len(events)])
        before == [event_log |-> event_log, notification_history |-> notification_history]
        logs   == IF failed THEN DeliverUntilFailure(before, events, reached)
                  ELSE DeliverAll(before, events)
    IN
    /\ ncalls < MaxCalls
    /\ IF failed
       THEN reached \subseteq
                SubscribersFor(subscribers, events[Len(events)]) \ FailingListeners
       ELSE reached = {}
    /\ dev_state' = r.state
    /\ history' = r.history
    /\ event_log' = logs.event_log
    /\ notification_history' = logs.notification_history
    /\ ncalls' = ncalls + 1
    /\ last' = [op |-> "set_state", patch |-> p, ok |-> r.ok, raised |-> r.raised,
                ret |-> r.ret, passed |-> r.passed, trace |-> r.trace, pre |-> dev_state,
                prehist |-> history,
                prev |-> IF last.op = "set_state" THEN <<last.patch>> ELSE <<>>,
                reached |-> reached]
    /\ UNCHANGED <<subscribers, event_types, max_log_size, iter, interest, nnotify,
                   device, stack, schedules, now>>

\* The stacks with a notification decorator, alone and with a logging decorator
\* inside and outside
RaisingStacks ==
    { <<NotificationLayer(None)>>,
      <<NotificationLayer(None), LoggingLayer(MaxHistory)>>,
      <<LoggingLayer(MaxHistory), NotificationLayer(None)>> }

RaisingPatches == { "locked" :> B(FALSE), "locked" :> B(TRUE) }

\* The logger and the notification service registered, and a further listener,
\* whose update raises, that declares DEVICE_STATE_CHANGED
InitRaising ==
    /\ event_types = [l \in Listener |->
                           CASE l = "logger"   -> LoggingEventTypes(NoneList)
                             [] l = "notifier" -> NotificationEventTypes(
                                                      <<"DEVICE_STATE_CHANGED">>)
                             [] OTHER          -> <<"DEVICE_STATE_CHANGED">>]
    /\ subscribers = SubscribeLoop(SubscribeLoop(EventManagerInit, "logger",
                                                 LoggingEventTypes(NoneList)),
                                   "notifier", <<"DEVICE_STATE_CHANGED">>)
    /\ interest = [l \in Listener |->
                           CASE l = "logger"   -> Range(LoggingEventTypes(NoneList))
                             [] l = "notifier" -> {"DEVICE_STATE_CHANGED"}
                             [] OTHER          -> {}]
    /\ event_log = <<>>
    /\ max_log_size = DefaultMaxLogSize
    /\ notification_history = <<>>
    /\ iter = NoIter
    /\ nnotify = 0
    /\ last = [op |-> "init"]
    /\ \E stk \in RaisingStacks :
          InitDevice(SecurityDeviceFactory("lock-front-1", "Front Door Lock", <<>>), stk)

NextRaising ==
    \/ \E l \in FailingListeners : Subscribe(l)
    \/ \E l \in FailingListeners : Unsubscribe(l)
    \/ \E p \in RaisingPatches, reached \in SUBSET (Listener \ FailingListeners) :
          SetStateRaising(p, reached)

SpecRaising == InitRaising /\ [][NextRaising]_vars

(***************************************************************************)
(* Properties of the event router                                          *)
(***************************************************************************)

\* C1: a notify of an event invokes update exactly once on every listener
\* whose interest set (the types it declared when subscribed) holds the
\* event's type, and zero times on every other listener.
C1_DeliveredByInterest ==
    last.op = "notify" =>
        \A l \in Listener :
            last.count[l] = IF last.event.event_type \in interest[l] THEN 1 ELSE 0

\* A notify that reached one subscribed listener and skipped another one
\* subscribed for other types.
C1_Witness ==
    /\ last.op = "notify"
    /\ \E l1, l2 \in Listener :
          /\ last.count[l1] = 1
          /\ last.count[l2] = 0
          /\ interest[l2] # {}

\* C2: a notify during which an update calls subscribe / unsubscribe still
\* completes without error and delivers the event exactly once to every
\* listener that was registered for the type when notify began.
C2_SnapshotDelivery ==
    last.op = "notify" =>
        /\ ~last.raised
        /\ \A l \in last.start : last.count[l] = 1

\* C3: subscribe is idempotent: however often a listener was subscribed and
\* however often its list names a type, each type's subscriber count counts
\* it once, and a notify invokes it at most once.
C3_SubscribeIdempotent ==
    /\ \A t \in EventType :
          GetSubscriberCount[t] = Cardinality({ l \in Listener : t \in interest[l] })
    /\ last.op = "notify" => \A l \in Listener : last.count[l] <= 1

\* The listener whose list names MOTION_DETECTED twice has been subscribed
\* again while registered, and is counted once.
C3_Witness ==
    /\ last.op = "subscribe"
    /\ last.l = "custom"
    /\ last.again
    /\ GetSubscriberCount["MOTION_DETECTED"] = 1

\* C4: unsubscribe(L) leaves L in no type's set and leaves the sets of the
\* other listeners, and every log, as they were (nothing changes at all when
\* L was not registered); a listener that is not subscribed is in no set and
\* is not invoked by a notify.
C4_UnsubscribeRemoves ==
    /\ [][ last'.op = "unsubscribe" =>
             LET l == last'.l IN
             /\ RegisteredIn(subscribers', l) = {}
             /\ \A m \in Listener \ {l} : RegisteredIn(subscribers', m) = RegisteredTypes(m)
             /\ RegisteredTypes(l) = {} => subscribers' = subscribers
             /\ UNCHANGED <<event_types, event_log, notification_history,
                   deviceVars>>
         ]_vars
    /\ [](\A l \in Listener : interest[l] = {} =>
             /\ RegisteredTypes(l) = {}
             /\ last.op = "notify" => last.count[l] = 0)

\* A registered listener was unsubscribed while another one stays registered.
C4_Witness ==
    /\ last.op = "unsubscribe"
    /\ interest[last.l] = {}
    /\ \E m \in Listener \ {last.l} : RegisteredTypes(m) # {}
    /\ nnotify > 0

\* C5: the declared list is read at subscribe time only: a change of the list
\* a listener declares changes no registry set; a listener's registered types
\* change only in its own subscribe (which adds the list declared then) and
\* unsubscribe (which removes it from every type, declared or not); notify
\* delivers by the registry, not by the list declared now.
C5_InterestReadAtSubscribe ==
    [][ \A l \in Listener :
          /\ event_types'[l] # event_types[l] => subscribers' = subscribers
          /\ RegisteredIn(subscribers', l) # RegisteredTypes(l) =>
                last'.op \in {"subscribe", "unsubscribe"} /\ last'.l = l
          /\ (last'.op = "subscribe" /\ last'.l = l) =>
                RegisteredIn(subscribers', l) = RegisteredTypes(l) \cup Range(event_types[l])
          /\ (last'.op = "unsubscribe" /\ last'.l = l) => RegisteredIn(subscribers', l) = {}
          /\ last'.op = "notify" =>
                (last'.count[l] = 1 <=> last'.event.event_type \in RegisteredTypes(l))
      ]_vars

\* The notification service got an event of a type it no longer declares.
C5_Witness ==
    /\ last.op = "notify"
    /\ last.count["notifier"] = 1
    /\ last.event.event_type \notin Range(event_types["notifier"])

\* C6: the registry has an entry for each of the 11 event types, and
\* get_subscriber_count maps each type to the number of listeners in its set.
C6_RegistryTotal ==
    /\ DOMAIN subscribers = EventType
    /\ Cardinality(DOMAIN subscribers) = Len(EventTypeList)
    /\ Len(EventTypeList) = 11
    /\ DOMAIN GetSubscriberCount = EventType
    /\ \A t \in EventType :
          /\ subscribers[t] \subseteq Listener
          /\ GetSubscriberCount[t] = Cardinality({ l \in Listener : l \in subscribers[t] })

\* After subscribes and notifies: a type with all listeners and a type with one.
C6_Witness ==
    /\ last.op = "notify"
    /\ nnotify = MaxNotify
    /\ \E t \in EventType : GetSubscriberCount[t] = Cardinality(Listener)
    /\ \E t \in EventType : GetSubscriberCount[t] = 1

(***************************************************************************)
(* Properties of the devices and their decorators                          *)
(***************************************************************************)
Top == Len(stack)

\* The number of steps of a kind that layer i made in a call's trace
StepsOf(trace, kind, i) ==
    Cardinality({ j \in DOMAIN trace : trace[j].kind = kind /\ trace[j].layer = i })

\* C7: a NotificationDecorator.set_state call makes exactly one
\* publisher.notify call when the inner set_state returned true and the
\* predicate passes on (pre-state, post-state) (no predicate: always), and
\* none when the inner call returned false or the predicate is false.
C7_OnePublishPerPassingCall ==
    last.op = "set_state" =>
        \A i \in DOMAIN stack :
            stack[i].kind = "Notification" =>
                LET old    == GetStateOf(i - 1, last.pre)
                    new    == GetStateOf(i - 1, dev_state)
                    passes == \/ stack[i].criteria = None
                              \/ Criteria(stack[i].criteria, old, new)
                IN  StepsOf(last.trace, "notify", i)
                        = IF last.ret[i] = "true" /\ passes THEN 1 ELSE 0

\* A successful call that changed no value, through a NotificationDecorator
\* without predicate, published once.
C7_Witness ==
    /\ last.op = "set_state"
    /\ last.ok
    /\ dev_state = last.pre
    /\ \E i \in DOMAIN stack :
          /\ stack[i].kind = "Notification"
          /\ stack[i].criteria = None
          /\ StepsOf(last.trace, "notify", i) = 1

\* C8: of two consecutive set_state calls with the same patch on a
\* LoggingDecorator over any entity, the second appends no history record.
C8_SecondCallSilent ==
    (last.op = "set_state" /\ last.prev = <<last.patch>>) =>
        \A i \in DOMAIN stack :
            stack[i].kind = "Logging" => StepsOf(last.trace, "history", i) = 0

\* C9: the history of a LoggingDecorator with bound N never has more than N
\* records, for every N >= 0.
C9_HistoryBounded ==
    \A i \in DOMAIN stack :
        stack[i].kind = "Logging" => Len(history[i]) <= stack[i].max_history

\* C10: the key set of a device's state is the one it was constructed with
\* (and so is the key set of get_state() of the decorated device); a patch of
\* unknown keys only returns true and changes nothing; an accepted patch
\* overwrites exactly its known keys and drops the unknown ones.
C10_ClosedState ==
    /\ DOMAIN dev_state = DOMAIN InitialState(device)
    /\ DOMAIN GetStateOf(Top, dev_state) = DOMAIN GetStateOf(Top, InitialState(device))
    /\ last.op = "set_state" =>
          /\ DOMAIN last.patch \cap DOMAIN GetStateOf(Top, last.pre) = {} =>
                /\ last.ok /\ ~last.raised
                /\ dev_state = last.pre
                /\ GetStateOf(Top, dev_state) = GetStateOf(Top, last.pre)
          /\ last.ret[1] = "true" =>
                \A k \in DOMAIN dev_state :
                    dev_state[k] = IF k \in DOMAIN last.patch THEN last.patch[k]
                                                              ELSE last.pre[k]

\* An accepted patch with a known and an unknown key changed the state.
C10_Witness ==
    /\ last.op = "set_state"
    /\ last.ok
    /\ DOMAIN last.patch \cap DOMAIN last.pre # {}
    /\ DOMAIN last.patch \ DOMAIN last.pre # {}
    /\ dev_state # last.pre

\* C11: on a Thermostat with range [min_temp, max_temp], a patch whose
\* target_temperature is below min_temp or above max_temp returns false and
\* leaves the whole state unchanged; a target_temperature equal to min_temp
\* or to max_temp returns true and is stored.
C11_InclusiveBounds ==
    (/\ last.op = "set_state"
     /\ device.kind = "thermostat"
     /\ "target_temperature" \in DOMAIN last.patch
     /\ last.patch["target_temperature"][1] = "num") =>
        LET t == last.patch["target_temperature"][2] IN
        /\ (t < device.min_temp \/ t > device.max_temp) =>
              /\ last.ret[1] = "false"
              /\ ~last.ok /\ ~last.raised
              /\ dev_state = last.pre
        /\ (t = device.min_temp \/ t = device.max_temp) =>
              /\ last.ret[1] = "true"
              /\ last.ok
              /\ dev_state["target_temperature"] = N(t)

\* max_temp + 1 was rejected after max_temp itself had been stored.
C11_Witness ==
    /\ last.op = "set_state"
    /\ device.kind = "thermostat"
    /\ last.patch = "target_temperature" :> N(device.max_temp + 1)
    /\ ~last.ok
    /\ dev_state["target_temperature"] = N(device.max_temp)

\* C12: a Thermostat patch with an out-of-range target_temperature and
\* other keys returns false and applies none of the other keys.
C12_AllOrNothing ==
    (/\ last.op = "set_state"
     /\ device.kind = "thermostat"
     /\ "target_temperature" \in DOMAIN last.patch
     /\ last.patch["target_temperature"][1] = "num"
     /\ \/ last.patch["target_temperature"][2] < device.min_temp
        \/ last.patch["target_temperature"][2] > device.max_temp) =>
        /\ last.ret[1] = "false"
        /\ \A k \in DOMAIN dev_state : dev_state[k] = last.pre[k]

\* A rejected patch carried another key whose value differs from the stored one.
C12_Witness ==
    /\ last.op = "set_state"
    /\ device.kind = "thermostat"
    /\ ~last.ok /\ ~last.raised
    /\ \E k \in (DOMAIN last.patch \cap DOMAIN last.pre) \ {"target_temperature"} :
          last.patch[k] # last.pre[k]

\* C13: set_state with a patch of booleans, numbers, strings and nulls ends
\* by returning a boolean, never by raising, and a false return leaves the
\* state unchanged.
C13_NeverRaises ==
    last.op = "set_state" =>
        /\ ~last.raised
        /\ \A j \in DOMAIN last.ret : last.ret[j] \in {"true", "false"}
        /\ ~last.ok => dev_state = last.pre

\* C14: in every reachable state and at every layer of every stack,
\* get_id(), get_device_type(), get_capabilities() and
\* supports_capability(tag) equal those of the base device.
C14_IdentityTransparent ==
    \A i \in 1 .. Top :
        /\ GetIdOf(i) = device.id
        /\ GetDeviceTypeOf(i) = GetDeviceType(device)
        /\ GetCapabilitiesOf(i) = GetCapabilities(device)
        /\ \A c \in DeviceCapability :
              SupportsCapabilityOf(i, c) = SupportsCapability(device, c)

\* A stack of all three decorators after a call that changed the state.
C14_Witness ==
    /\ Top = 3
    /\ { stack[i].kind : i \in DOMAIN stack } = {"Timer", "Logging", "Notification"}
    /\ last.op = "set_state"
    /\ dev_state # last.pre
    /\ \E c \in DeviceCapability : SupportsCapabilityOf(Top, c)

\* C15: a set_state call through a stack of decorators returns what the
\* same call on the bare device in the same state returns and leaves the
\* device in the same state (hence so does every sequence of calls); every
\* layer is called once, with the patch the caller passed; and get_state()
\* of a layer is the inner get_state() with that decorator's synthetic keys
\* set and nothing else changed.
C15_UpdateTransparent ==
    /\ last.op = "set_state" =>
          LET direct == DeviceSetState(device, last.pre, last.patch) IN
          /\ last.ok = direct.ok
          /\ last.raised = direct.raised
          /\ dev_state = direct.state
          /\ Len(last.ret) = Top + 1
          /\ \A j \in DOMAIN last.ret : last.ret[j] = Returned(direct)
          /\ Len(last.passed) = Top + 1
          /\ \A j \in DOMAIN last.passed : last.passed[j] = last.patch
    /\ \A i \in 1 .. Top :
          LET outer == GetStateOf(i, dev_state)
              inner == GetStateOf(i - 1, dev_state)
          IN  /\ DOMAIN outer = DOMAIN inner \cup SyntheticKeys(stack[i])
              /\ \A k \in DOMAIN inner \ SyntheticKeys(stack[i]) : outer[k] = inner[k]

\* A rejected call through two or more decorators, after accepted calls had
\* changed the device's state.
C15_Witness ==
    /\ last.op = "set_state"
    /\ Top >= 2
    /\ ~last.ok /\ ~last.raised
    /\ dev_state # InitialState(device)

\* C16: schedule_action(time, patch) with time <= now (time = now included)
\* returns false and leaves the schedule list unchanged; with time > now it
\* appends the one entry (time, patch) and returns true, and from then on
\* has_schedules is true and, while that time is still ahead of the clock,
\* next_scheduled_action is non-null.
C16_ScheduleAction ==
    last.op = "schedule_action" =>
        LET i  == last.layer
            st == GetStateOf(i, dev_state)
        IN
        /\ last.ok = (last.time > last.at)
        /\ ~last.ok => schedules[i] = last.pre
        /\ last.ok =>
              /\ schedules[i] = Append(last.pre, [time |-> last.time, state |-> last.state])
              /\ st["has_schedules"] = B(TRUE)
              /\ now < last.time => st["next_scheduled_action"] # NoneV

\* After the clock had moved, an action for the very next tick was accepted,
\* and the list held an entry already.
C16_Witness ==
    /\ last.op = "schedule_action"
    /\ last.ok
    /\ last.at > 0
    /\ last.time = last.at + 1
    /\ now = last.at
    /\ last.pre # <<>>

\* The record of event e is the newest one listener l holds
Recorded(l, e) ==
    CASE l = "logger" ->
            /\ event_log # <<>>
            /\ event_log[Len(event_log)] = LoggingUpdate(<<>>, 1, e)[1]
      [] l = "notifier" ->
            /\ notification_history # <<>>
            /\ notification_history[Len(notification_history)] = NotificationUpdate(<<>>, e)[1]
      [] OTHER -> TRUE

\* The events the call recorded in a last-call record published, in order
EventsOf(call) ==
    CASE call.op = "notify"    -> <<call.event>>
      [] call.op = "set_state" -> Published(call.trace)
      [] OTHER                 -> <<>>

\* C17: when notify(e) has returned, every listener registered for e's type
\* holds the record of e; when set_state has returned true after publishing,
\* every listener registered for DEVICE_STATE_CHANGED holds the record of
\* the event; and the listeners' lists change only in the step of the call
\* that publishes, by exactly the deliveries of that call's events (nothing
\* is delivered after the call returned).
C17_SynchronousDispatch ==
    /\ [](\A j \in DOMAIN EventsOf(last) :
            j = Len(EventsOf(last)) =>
                \A l \in SubscribersFor(subscribers, EventsOf(last)[j]) :
                    Recorded(l, EventsOf(last)[j]))
    /\ [][ LET logs == DeliverAll([event_log |-> event_log,
                                    notification_history |-> notification_history],
                                   IF nnotify' # nnotify \/ ncalls' # ncalls
                                   THEN EventsOf(last') ELSE <<>>)
           IN  /\ event_log' = logs.event_log
               /\ notification_history' = logs.notification_history ]_vars

\* set_state published and returned true, and the logging listener and a
\* notification service registered for DEVICE_STATE_CHANGED both hold the event.
C17_Witness ==
    /\ last.op = "set_state"
    /\ last.ok
    /\ Len(Published(last.trace)) = 1
    /\ SubscribersFor(subscribers, Published(last.trace)[1]) = {"logger", "notifier"}
    /\ Len(notification_history) >= 2
    /\ Recorded("notifier", Published(last.trace)[1])

\* C18: when a listener's update fails during notify(e), notify ends with
\* that failure (it never returns normally after the failing listener was
\* invoked), the listeners not yet invoked do not receive e, and the
\* registry is as it was.
C18_FailurePropagates ==
    /\ [](last.op = "notify" =>
            /\ last.raised <=> (\E l \in FailingListeners : last.count[l] > 0)
            /\ \A l \in Listener : last.count[l] <= 1)
    /\ [][ (iter.active /\ ~iter'.active /\ last'.raised) =>
             /\ subscribers' = subscribers
             /\ event_log' = event_log
             /\ notification_history' = notification_history
             /\ \A l \in Listener \ FailingListeners :
                   last'.count[l] = iter.count[l]
             /\ \A l \in iter.start \ (iter.visited \cup FailingListeners) :
                   last'.count[l] = 0
         ]_vars

\* The failing listener was invoked while another listener registered for the
\* event had not been invoked yet, and that one got nothing.
C18_Witness ==
    /\ last.op = "notify"
    /\ last.raised
    /\ \E l \in last.start \ FailingListeners :
          /\ last.count[l] = 0
          /\ last.event.event_type \in RegisteredTypes(l)
    /\ \E l \in last.start \ FailingListeners : last.count[l] = 1

\* C19: with subscribe / unsubscribe running in another thread, the registry
\* is not modified while a notify iterates it, notify completes without
\* error, and every listener registered for the event's type during the
\* whole notify (one the other thread does not touch) receives the event
\* exactly once.
C19_MutualExclusion ==
    /\ [][ (iter.active /\ iter'.active) => subscribers' = subscribers ]_vars
    /\ [](last.op = "notify" =>
            /\ ~last.raised
            /\ \A l \in last.start \ ThreadListeners : last.count[l] = 1)

\* C20: for every bound N >= 0, the log of a LoggingEventSubscriber never
\* has more than N records and holds the most recent min(N, number of
\* updates since the last clear_log) events in arrival order, each record
\* with the type, source and data of its event.
C20_LogBounded ==
    LET arrived == last.arrived
        kept    == IF Len(arrived) <= max_log_size THEN Len(arrived) ELSE max_log_size
    IN  /\ Len(event_log) <= max_log_size
        /\ Len(event_log) = kept
        /\ \A j \in 1 .. kept :
              LET e == arrived[Len(arrived) - kept + j] IN
              /\ event_log[j].type = StrOfEventType(e.event_type)
              /\ event_log[j].source = e.source
              /\ event_log[j].data = e.data

\* C21: with LoggingEventSubscriber() and NotificationService() both
\* subscribed, publishing an event of type T appends exactly one record (the
\* event's) to the log, and exactly one record to the notification history
\* when T is MOTION_DETECTED, DOOR_OPENED or SYSTEM_ALERT and none otherwise;
\* the DEVICE_STATE_CHANGED event of a NotificationDecorator reaches the
\* logging listener only.
C21_EndToEnd ==
    [][ LET events == IF nnotify' # nnotify \/ ncalls' # ncalls
                      THEN EventsOf(last') ELSE <<>>
            critical == { j \in DOMAIN events :
                            events[j].event_type
                                \in {"MOTION_DETECTED", "DOOR_OPENED", "SYSTEM_ALERT"} }
        IN  /\ Len(event_log') = Len(event_log) + Len(events)
            /\ SubSeq(event_log', 1, Len(event_log)) = event_log
            /\ \A j \in DOMAIN events :
                  /\ event_log'[Len(event_log) + j].type
                         = StrOfEventType(events[j].event_type)
                  /\ event_log'[Len(event_log) + j].source = events[j].source
            /\ Len(notification_history')
                   = Len(notification_history) + Cardinality(critical)
            /\ SubSeq(notification_history', 1, Len(notification_history))
                   = notification_history
            /\ ncalls' # ncalls =>
                  /\ Len(events) = 1
                  /\ events[1].event_type = "DEVICE_STATE_CHANGED"
                  /\ notification_history' = notification_history
      ]_vars

\* After a critical event and another one, the decorator's event was logged and
\* the notification history holds the critical event only.
C21_Witness ==
    /\ last.op = "set_state"
    /\ Len(Published(last.trace)) = 1
    /\ Len(event_log) = 3
    /\ Len(notification_history) = 1
    /\ event_log[3].type = StrOfEventType("DEVICE_STATE_CHANGED")

\* C22: a LoggingEventSubscriber constructed without an event-type argument
\* declares all 11 event types, and one constructed with a list S declares
\* exactly S, the empty list included; when it is notified next, the event's
\* type is in that set (so with the empty list it receives no event).
C22_DeclaredSubset ==
    [][\A arg \in LoggerArgs :
          (last.op = "init" /\ last.arg = arg) =>
              LET declared == IF arg = NoneList THEN EventType ELSE Range(arg) IN
              /\ Range(event_types["logger"]) = declared
              /\ arg = NoneList => Cardinality(declared) = 11
              /\ (last'.op = "notify" /\ last'.count["logger"] > 0) =>
                     last'.event.event_type \in declared
      ]_vars

\* C23: on LoggingDecorator.set_state(patch), when the inner set_state did
\* not return true the history is unchanged; when it returned true, one
\* record is appended if some key of the patch is in the pre-call inner
\* state with a different value, and none otherwise; the record's changes
\* map has exactly those keys, each with the pre-call value as 'from' and
\* the patch's value as 'to'.
C23_HistoryRecord ==
    last.op = "set_state" =>
        \A i \in DOMAIN stack :
            stack[i].kind = "Logging" =>
                LET old     == GetStateOf(i - 1, last.pre)
                    differ  == { k \in DOMAIN last.patch :
                                   k \in DOMAIN old /\ ~PyEq(old[k], last.patch[k]) }
                    before  == last.prehist[i]
                    after   == history[i]
                IN  IF last.ret[i] = "true" /\ differ # {}
                    THEN /\ StepsOf(last.trace, "history", i) = 1
                         /\ after # <<>>
                         /\ DOMAIN after[Len(after)].changes = differ
                         /\ \A k \in differ :
                               /\ after[Len(after)].changes[k].from = old[k]
                               /\ after[Len(after)].changes[k].to = last.patch[k]
                         /\ \A j \in 1 .. Len(after) - 1 :
                               after[j] = before[Len(before) - (Len(after) - 1) + j]
                    ELSE /\ StepsOf(last.trace, "history", i) = 0
                         /\ after = before

\* A patch with a changed key, an unchanged key and an unknown key was
\* recorded by its changed key only.
C23_Witness ==
    /\ last.op = "set_state"
    /\ \E i \in DOMAIN stack :
          /\ stack[i].kind = "Logging"
          /\ history[i] # <<>>
          /\ StepsOf(last.trace, "history", i) = 1
          /\ DOMAIN history[i][Len(history[i])].changes # DOMAIN last.patch
          /\ Len(last.prehist[i]) > 0

\* The positions in a call's trace of the steps of a kind made by layer i
StepPositions(trace, kind, i) ==
    { j \in DOMAIN trace : trace[j].kind = kind /\ trace[j].layer = i }

\* C24: the order of the decorators fixes the order of the side effects of
\* a set_state call: a LoggingDecorator inside a NotificationDecorator
\* appends its record before the event is published, one outside appends
\* it after the event was published (and delivered); either side effect
\* comes after the base device's state was updated.
C24_SideEffectOrder ==
    last.op = "set_state" =>
        /\ \A i, j \in DOMAIN stack :
              (stack[i].kind = "Logging" /\ stack[j].kind = "Notification") =>
                  \A a \in StepPositions(last.trace, "history", i),
                     b \in StepPositions(last.trace, "notify", j) :
                      IF i < j THEN a < b ELSE b < a
        /\ \A a \in DOMAIN last.trace :
              last.trace[a].kind \in {"history", "notify"} =>
                  /\ last.trace[1].kind = "state"
                  /\ last.trace[1].what = dev_state
                  /\ a > 1
        /\ \A a \in DOMAIN last.trace :
              last.trace[a].kind = "notify" =>
                  last.trace[a].what.data.new_state
                      = GetStateOf(last.trace[a].layer - 1, dev_state)

\* Logging(Notification(E)): the event was published, then the record appended.
C24_Witness ==
    /\ last.op = "set_state"
    /\ Len(stack) = 2
    /\ stack[1].kind = "Notification"
    /\ stack[2].kind = "Logging"
    /\ StepPositions(last.trace, "notify", 1) = {2}
    /\ StepPositions(last.trace, "history", 2) = {3}

\* C25: the event a notification decorator's set_state publishes has type
\* DEVICE_STATE_CHANGED, the wrapped entity's id as source, the inner state read
\* before the inner call as old_state and the inner state read after it as
\* new_state, and the predicate was called with that same pair of states
C25_EventOfSamePair ==
    (last.op = "set_state" /\ "judged" \in DOMAIN last) =>
        \A k \in DOMAIN last.trace :
            last.trace[k].kind = "notify" =>
                LET e == last.trace[k].what IN
                /\ e.event_type = "DEVICE_STATE_CHANGED"
                /\ e.source = device.id
                /\ e.data.old_state = GetStateAt(Len(stack) - 1, last.pre, last.at)
                /\ e.data.new_state = GetStateAt(Len(stack) - 1, dev_state, now)
                /\ \A j \in DOMAIN last.judged :
                       /\ last.judged[j].old = e.data.old_state
                       /\ last.judged[j].new = e.data.new_state

\* C26: in every state the next_scheduled_action of a timer decorator's
\* get_state() describes a stored entry whose trigger time is the least among the
\* entries strictly later than now, and is None when there is no such entry; and
\* an entry leaves the schedule list only by cancel_all_schedules, so entries whose
\* time has passed stay stored
C26_NextScheduledAction ==
    /\ [](\A i \in DOMAIN stack :
            stack[i].kind = "Timer" =>
                LET sch    == schedules[i]
                    next   == GetStateOf(i, dev_state)["next_scheduled_action"]
                    future == { j \in DOMAIN sch : sch[j].time > now }
                IN  IF future = {} THEN next = NoneV
                    ELSE \E j \in future :
                            /\ \A k \in future : sch[j].time <= sch[k].time
                            /\ next = D([time |-> IsoFormat(sch[j].time),
                                         state_changes |-> sch[j].state]))
    /\ [][\A i \in DOMAIN stack :
              \/ \E n \in 0 .. 1 : /\ Len(schedules'[i]) = Len(schedules[i]) + n
                                   /\ SubSeq(schedules'[i], 1, Len(schedules[i]))
                                         = schedules[i]
              \/ /\ last'.op = "cancel_all_schedules"
                 /\ last'.layer = i
                 /\ schedules'[i] = <<>>]_vars

\* C26 witness: the first stored entry's time has passed, the second is still to
\* come and is the one get_state() reports
C26_Witness ==
    /\ stack = <<TimerLayer>>
    /\ Len(schedules[1]) = 2
    /\ schedules[1][1].time <= now
    /\ schedules[1][2].time > now
    /\ GetStateOf(1, dev_state)["next_scheduled_action"]
          = D([time |-> IsoFormat(schedules[1][2].time),
               state_changes |-> schedules[1][2].state])

\* C27: in every state, also after the clock has passed stored trigger times,
\* has_schedules of a timer decorator's get_state() is True exactly when a stored
\* entry's time is still in the future, and so exactly when next_scheduled_action
\* is not None
C27_HasSchedulesIffPending ==
    \A i \in DOMAIN stack :
        stack[i].kind = "Timer" =>
            LET st == GetStateOf(i, dev_state) IN
            /\ st["has_schedules"]
                  = B(\E j \in DOMAIN schedules[i] : schedules[i][j].time > now)
            /\ (st["has_schedules"] = B(TRUE)) <=> (st["next_scheduled_action"] # NoneV)

\* C28: cancel_all_schedules leaves the list empty, has_schedules False and
\* next_scheduled_action None, and leaves the wrapped device's state as it was,
\* whatever the list held; a schedule_action that follows it has the result and
\* the effect it has on a new decorator
C28_CancelAllSchedules ==
    [][/\ \A i \in DOMAIN stack :
             (last' # last /\ last'.op = "cancel_all_schedules" /\ last'.layer = i) =>
                 /\ last'.pre = schedules[i]
                 /\ schedules'[i] = <<>>
                 /\ GetStateOf(i, dev_state)'["has_schedules"] = B(FALSE)
                 /\ GetStateOf(i, dev_state)'["next_scheduled_action"] = NoneV
                 /\ dev_state' = dev_state
       /\ (last.op = "cancel_all_schedules" /\ last'.op = "schedule_action") =>
             /\ last'.pre = <<>>
             /\ last'.ok = (last'.time > now)
             /\ schedules'[last'.layer]
                   = IF last'.time > now
                     THEN <<[time |-> last'.time, state |-> last'.state]>> ELSE <<>>
      ]_vars

\* C28 witness: a cancel has just emptied a list that held an entry whose time had
\* passed and an entry still to come, on a device whose state had been changed
C28_Witness ==
    /\ last.op = "cancel_all_schedules"
    /\ \E j \in DOMAIN last.pre : last.pre[j].time <= now
    /\ \E j \in DOMAIN last.pre : last.pre[j].time > now
    /\ schedules[last.layer] = <<>>
    /\ dev_state["power"] = B(TRUE)

\* C29: the wrapped device's state changes only in a set_state call: scheduling,
\* cancelling and the clock passing an entry's time leave it as it was, and the
\* clock passing an entry's time leaves the entry stored
C29_NeverExecuted ==
    [][/\ dev_state' # dev_state =>
             (ncalls' = ncalls + 1 /\ last'.op = "set_state" /\ last'.pre = dev_state)
       /\ (ncalls' = ncalls) => dev_state' = dev_state
       /\ now' # now => (schedules' = schedules /\ dev_state' = dev_state)
      ]_vars

\* C29 witness: a stored entry is due, its patch would change the device, and the
\* device is as it was
C29_Witness ==
    /\ stack = <<TimerLayer>>
    /\ \E j \in DOMAIN schedules[1] :
          /\ schedules[1][j].time <= now
          /\ \E k \in DOMAIN schedules[1][j].state :
                 dev_state[k] # schedules[1][j].state[k]
    /\ dev_state = InitialState(device)

\* C30: get_state() changes neither the device's state nor a history, schedule or
\* registry; after the caller wrote to or deleted from what get_state() returned,
\* get_state() of every layer returns what it returned before the write and the
\* stored schedules are as they were; and a set_state call leaves the mapping the
\* caller holds as it was
C30_PureQuery ==
    [][/\ (last' # last /\ last'.op = "get_state") => UNCHANGED <<routerVars, deviceVars>>
       /\ (last' # last /\ last'.op = "write") =>
             /\ \A i \in 0 .. Len(stack) :
                    GetStateOf(i, dev_state)' = GetStateOf(i, dev_state)
             /\ UNCHANGED <<dev_state, history, schedules>>
       /\ (ncalls' = ncalls + 1 /\ "returned" \in DOMAIN last) =>
             last'.returned = last.returned
      ]_vars

\* C31: a set_state call leaves get_id() and get_capabilities() of the device as
\* they were (setting the brightness of a light that is not dimmable adds no
\* BRIGHTNESS capability), and in every state supports_capability(tag) is true
\* exactly for the members of get_capabilities()
C31_FixedCapabilities ==
    /\ [](\A c \in DeviceCapability :
             SupportsCapability(device, c) <=>
                 \E k \in DOMAIN GetCapabilities(device) : GetCapabilities(device)[k] = c)
    /\ [][last'.op = "set_state" =>
             /\ GetIdOf(0)' = GetIdOf(0)
             /\ GetCapabilities(device)' = GetCapabilities(device)]_vars

\* C31 witness: a light made with dimmable false has had its brightness set and
\* does not support BRIGHTNESS
C31_Witness ==
    /\ device.kind = "light"
    /\ ~device.dimmable
    /\ last.op = "set_state"
    /\ last.pre["brightness"] = NoneV
    /\ dev_state["brightness"] = N(50)
    /\ ~SupportsCapability(device, "BRIGHTNESS")
    /\ GetCapabilities(device) = <<"POWER">>

\* C34: the device a factory's create_device(id, name, config) returns has the
\* given id and name, and a key the config lacks takes its default: a light is
\* dimmable and not color-adjustable, a thermostat has the range [10, 32], and the
\* security factory returns a camera exactly when device_subtype is "camera" and
\* otherwise, also without a config, a lock that is locked
C34_FactoryDefaults ==
    last.op = "create_device" =>
        /\ GetIdOf(0) = last.id
        /\ GetNameOf(0) = <<last.name>>
        /\ last.factory = "LightingDeviceFactory" =>
              /\ GetDeviceType(device) = "LIGHT"
              /\ "dimmable" \notin DOMAIN last.config =>
                    /\ SupportsCapability(device, "BRIGHTNESS")
                    /\ dev_state["brightness"] = N(100)
              /\ "color_adjustable" \notin DOMAIN last.config =>
                    /\ ~SupportsCapability(device, "COLOR")
                    /\ "color" \notin DOMAIN dev_state
        /\ last.factory = "ClimateDeviceFactory" =>
              /\ GetDeviceType(device) = "THERMOSTAT"
              /\ "min_temp" \notin DOMAIN last.config =>
                    /\ TemperatureInRange(device, 10) \/ device.max_temp < 10
                    /\ ~TemperatureInRange(device, 9)
              /\ "max_temp" \notin DOMAIN last.config =>
                    /\ TemperatureInRange(device, 32) \/ device.min_temp > 32
                    /\ ~TemperatureInRange(device, 33)
        /\ last.factory = "SecurityDeviceFactory" =>
              LET camera == /\ "device_subtype" \in DOMAIN last.config
                            /\ last.config["device_subtype"] = "camera"
              IN  /\ camera <=> GetDeviceType(device) = "CAMERA"
                  /\ ~camera => /\ GetDeviceType(device) = "LOCK"
                                /\ dev_state["locked"] = B(TRUE)

\* C34 witness: the security factory, called without a config, returned a locked
\* lock with the given id and name
C34_Witness ==
    /\ last.op = "create_device"
    /\ last.factory = "SecurityDeviceFactory"
    /\ "absent" \in DOMAIN last.config
    /\ device.id = "lock-front-1"
    /\ GetDeviceType(device) = "LOCK"
    /\ dev_state["locked"] = B(TRUE)

\* C37: in every state, from construction on, a thermostat's target_temperature
\* is a number within [min_temp, max_temp], whatever range it was made with
C37_TargetInRange ==
    device.kind = "thermostat" =>
        /\ IsNumber(dev_state["target_temperature"])
        /\ TemperatureInRange(device, dev_state["target_temperature"][2])

\* C32: after n update calls the notification history has n records, the i-th
\* with the message, the type and the source of the i-th event that arrived; an
\* update appends one record and leaves the earlier records as they were, in
\* their places
C32_AppendOnly ==
    /\ [](/\ Len(notification_history) = Len(last.arrived)
          /\ \A i \in DOMAIN notification_history :
                /\ notification_history[i].message = CreateMessageForEvent(last.arrived[i])
                /\ notification_history[i].event_type
                      = <<"EventType.", last.arrived[i].event_type>>
                /\ notification_history[i].source = last.arrived[i].source)
    /\ [][/\ Len(notification_history') = Len(notification_history) + 1
           /\ SubSeq(notification_history', 1, Len(notification_history))
                 = notification_history]_vars

\* C32 witness: three updates, the first and the last with the same event, have
\* left three records
C32_Witness ==
    /\ Len(last.arrived) = 3
    /\ Len(notification_history) = 3
    /\ last.arrived[1] = last.arrived[3]
    /\ last.arrived[1] # last.arrived[2]
    /\ notification_history[1] = notification_history[3]

\* C33: the message of every record is the one its event's type gives: "Motion
\* detected by {source}!", "Door opened: {source}", "{SEVERITY} ALERT: {message}"
\* with the severity in upper case, "unknown" for a missing severity and a generic
\* text for a missing message, "Device state changed: " with the payload's
\* device name or else the source, and the generic "Event occurred" text for
\* every other type
C33_MessageByType ==
    \A i \in DOMAIN notification_history :
        LET e   == last.arrived[i]
            msg == notification_history[i].message
            has(k) == k \in DOMAIN e.data
        IN  CASE e.event_type = "MOTION_DETECTED" ->
                    msg = <<"Motion detected by ", e.source, "!">>
              [] e.event_type = "DOOR_OPENED" -> msg = <<"Door opened: ", e.source>>
              [] e.event_type = "SYSTEM_ALERT" ->
                    /\ Len(msg) = 3
                    /\ msg[1] = (IF ~has("severity") THEN "UNKNOWN"
                                 ELSE IF e.data.severity = "critical" THEN "CRITICAL"
                                 ELSE "WARNING")
                    /\ msg[2] = " ALERT: "
                    /\ msg[3] = (IF has("message") THEN e.data.message ELSE "System alert")
              [] e.event_type = "DEVICE_STATE_CHANGED" ->
                    msg = <<"Device state changed: ",
                            IF has("device_name") THEN e.data.device_name ELSE e.source>>
              [] OTHER -> msg[1] = "Event occurred: "

\* C33 witness: an alert without severity and message, a state change without a
\* device name and an event of another type have been recorded
C33_Witness ==
    /\ Len(notification_history) = 3
    /\ notification_history[1].message = <<"UNKNOWN", " ALERT: ", "System alert">>
    /\ notification_history[2].message = <<"Device state changed: ", "lock-front-1">>
    /\ notification_history[3].message
          = <<"Event occurred: ", <<"EventType.", "DOOR_CLOSED">>, " from ", "front-door">>

\* C35: every history record a LoggingDecorator appends in a set_state call is
\* true of the entity it wraps, also when that entity is a decorator with synthetic
\* state keys: the 'to' value of each key equals that key's value in the wrapped
\* entity's get_state() after the call, and a call that leaves the wrapped
\* entity's get_state() as it was appends no record
C35_FaithfulRecord ==
    last.op = "set_state" =>
        \A i \in DOMAIN stack :
            stack[i].kind = "Logging" =>
                LET before == GetStateOf(i - 1, last.pre)
                    after  == GetStateOf(i - 1, dev_state)
                IN  /\ \A j \in StepPositions(last.trace, "history", i) :
                          \A k \in DOMAIN last.trace[j].what :
                              /\ k \in DOMAIN after
                              /\ PyEq(last.trace[j].what[k].to, after[k])
                    /\ after = before => StepPositions(last.trace, "history", i) = {}

\* C36: when a listener fails in the notify of a notification decorator's
\* set_state, the call ends with that failure instead of a boolean, the state
\* change the call made on the device is kept, and a logging decorator around
\* the notification decorator appends no record for the call although the
\* state changed
C36_FailureInSetState ==
    (/\ last.op = "set_state"
     /\ \E j \in DOMAIN last.trace :
           /\ last.trace[j].kind = "notify"
           /\ \E l \in FailingListeners :
                  l \in SubscribersFor(subscribers, last.trace[j].what)) =>
        /\ last.raised
        /\ last.ret[Len(last.ret)] = "raise"
        /\ dev_state = BaseSetState(last.pre, last.patch)
        /\ \A i \in DOMAIN stack :
              (stack[i].kind = "Logging"
               /\ \E n \in 1 .. i - 1 : stack[n].kind = "Notification") =>
                  history[i] = last.prehist[i]

\* C36 witness: in Logging(Notification(lock)) a call that unlocked the lock ended
\* with the listener's failure and left the history empty
C36_Witness ==
    /\ stack = <<NotificationLayer(None), LoggingLayer(MaxHistory)>>
    /\ last.op = "set_state"
    /\ last.raised
    /\ last.pre["locked"] = B(TRUE)
    /\ dev_state["locked"] = B(FALSE)
    /\ history[2] = <<>>
    /\ last.ret = <<"true", "raise", "raise">>


====
